---- MODULE Spec2Model ----
(***************************************************************************)
(* Model of ocf (bbrowning/ocf): the platform client (pkg/oc) and the      *)
(* service binding workflows BindService / UnbindService of pkg/app.       *)
(*                                                                         *)
(* Strings are sequences of one-character strings, so that substring       *)
(* search, prefix tests, replacement, trimming and splitting are computed  *)
(* character by character as the Go strings package computes them.         *)
(***************************************************************************)
EXTENDS Integers, Sequences, FiniteSets, TLC

(***************************************************************************)
(* Bounds of the model.                                                    *)
(***************************************************************************)
\* longest CF_BOUND_SERVICES value a BindService call may produce
MaxBoundLen == 6

(***************************************************************************)
(* String constants of the program.                                        *)
(***************************************************************************)
BoundServices == <<"C","F","_","B","O","U","N","D","_","S","E","R","V","I","C","E","S">>
NotFound == <<"n","o","t"," ","f","o","u","n","d">>
SufUser == <<"_","U","S","E","R">>
SufPassword == <<"_","P","A","S","S","W","O","R","D">>
SufDatabase == <<"_","D","A","T","A","B","A","S","E">>
SufLabel == <<"_","L","A","B","E","L">>
POSTGRESQL == <<"P","O","S","T","G","R","E","S","Q","L">>
MYSQL == <<"M","Y","S","Q","L">>
MONGODB == <<"M","O","N","G","O","D","B">>
DeletionMarker == <<"-">>
Eq == "="

(***************************************************************************)
(* The Go strings package, on sequences of characters.                     *)
(***************************************************************************)
\* strings.HasPrefix
HasPrefix(s, p) == Len(p) <= Len(s) /\ SubSeq(s, 1, Len(p)) = p

\* strings.HasSuffix
HasSuffix(s, p) == Len(p) <= Len(s) /\ SubSeq(s, Len(s) - Len(p) + 1, Len(s)) = p

\* strings.Contains
Contains(s, sub) == \E i \in 1..(Len(s) - Len(sub) + 1) : SubSeq(s, i, i + Len(sub) - 1) = sub

\* unicode.IsSpace, on the characters the model uses
IsSpace(c) == c \in {" ", "\n", "\t"}

\* strings.ToUpper, one character
UpperChar(c) ==
  CASE c = "a" -> "A"
    [] c = "b" -> "B"
    [] c = "c" -> "C"
    [] c = "d" -> "D"
    [] OTHER -> c

\* strings.ToUpper
ToUpper(s) == [i \in 1..Len(s) |-> UpperChar(s[i])]

\* strings.Replace(s, old, new, -1) for a non-empty old: leftmost, non-overlapping
RECURSIVE ReplaceAll(_, _, _)
ReplaceAll(s, old, new) ==
  IF Len(s) < Len(old) THEN s
  ELSE IF HasPrefix(s, old)
       THEN new \o ReplaceAll(SubSeq(s, Len(old) + 1, Len(s)), old, new)
       ELSE <<Head(s)>> \o ReplaceAll(Tail(s), old, new)

\* strings.TrimLeft(s, " ")
RECURSIVE TrimLeft(_)
TrimLeft(s) == IF s # <<>> /\ Head(s) = " " THEN TrimLeft(Tail(s)) ELSE s

\* leading white space removed
RECURSIVE TrimLeftSpace(_)
TrimLeftSpace(s) == IF s # <<>> /\ IsSpace(Head(s)) THEN TrimLeftSpace(Tail(s)) ELSE s

\* trailing white space removed
RECURSIVE TrimRightSpace(_)
TrimRightSpace(s) ==
  IF s # <<>> /\ IsSpace(s[Len(s)]) THEN TrimRightSpace(SubSeq(s, 1, Len(s) - 1)) ELSE s

\* strings.TrimSpace
TrimSpace(s) == TrimRightSpace(TrimLeftSpace(s))

\* strings.Split(s, sep) for a one-character sep: the parts between the separators
RECURSIVE SplitChar(_, _)
SplitChar(s, c) ==
  IF \A i \in 1..Len(s) : s[i] # c THEN <<s>>
  ELSE LET i == CHOOSE j \in 1..Len(s) : s[j] = c /\ \A k \in 1..(j - 1) : s[k] # c
       IN  <<SubSeq(s, 1, i - 1)>> \o SplitChar(SubSeq(s, i + 1, Len(s)), c)

\* strings.Fields: the maximal runs of non-space characters, in order
RECURSIVE Fields(_)
Fields(s) ==
  LET t == TrimLeftSpace(s)
  IN  IF t = <<>> THEN <<>>
      ELSE LET n == IF \E j \in 1..Len(t) : IsSpace(t[j])
                    THEN (CHOOSE j \in 1..Len(t) : IsSpace(t[j]) /\ \A k \in 1..(j - 1) : ~IsSpace(t[k])) - 1
                    ELSE Len(t)
           IN  <<SubSeq(t, 1, n)>> \o Fields(SubSeq(t, n + 1, Len(t)))

\* the elements of a sequence
Range(f) == {f[i] : i \in DOMAIN f}

\* a Go map restricted to some of its keys
Restrict(m, keys) == [k \in keys |-> m[k]]

\* a Go map lookup: the zero value "" for a missing key
Lookup(m, k) == IF k \in DOMAIN m THEN m[k] ELSE <<>>

(***************************************************************************)
(* pkg/oc: DefaultOc.Exists.  output is the combined output of             *)
(* "oc get <type> <name>", failed tells whether the command returned an    *)
(* error.                                                                  *)
(***************************************************************************)
ExistsErrFirst(output, failed) ==
  IF failed THEN [exists |-> FALSE, err |-> "Error getting"]
  ELSE IF Contains(output, NotFound) THEN [exists |-> FALSE, err |-> "nil"]
  ELSE [exists |-> TRUE, err |-> "nil"]

ExistsIgnoreErr(output, failed) ==
  IF Contains(output, NotFound) THEN [exists |-> FALSE, err |-> "nil"]
  ELSE [exists |-> TRUE, err |-> IF failed THEN "Error getting" ELSE "nil"]

Exists(output, failed) ==
  IF Contains(output, NotFound) THEN [exists |-> FALSE, err |-> "nil"]
  ELSE IF failed THEN [exists |-> FALSE, err |-> "Error getting"]
  ELSE [exists |-> TRUE, err |-> "nil"]


(***************************************************************************)
(* pkg/oc: DefaultOc.Env.  The listing command prints one KEY=VALUE line   *)
(* per variable after a comment line; Env splits every line on "=" and     *)
(* keeps the lines that give exactly two parts.                            *)
(***************************************************************************)
\* some enumeration of a finite set (the order of a Go map iteration or of a listing)
RECURSIVE SetToSeq(_)
SetToSeq(S) ==
  IF S = {} THEN <<>>
  ELSE LET x == CHOOSE y \in S : TRUE IN <<x>> \o SetToSeq(S \ {x})

\* the lines "oc env <type> <name> --list" prints for the stored variables
EnvListing(stored) ==
  <<<<"#">>>> \o [i \in 1..Cardinality(DOMAIN stored) |->
                  LET k == SetToSeq(DOMAIN stored)[i] IN k \o <<Eq>> \o stored[k]]

\* the loop of Env over the lines of the output: a later line overrides an earlier one
RECURSIVE ParseEnvLines(_)
ParseEnvLines(lines) ==
  IF lines = <<>> THEN [k \in {} |-> <<>>]
  ELSE LET n     == Len(lines)
           rest  == ParseEnvLines(SubSeq(lines, 1, n - 1))
           split == SplitChar(lines[n], Eq)
       IN  IF Len(split) = 2
           THEN [k \in DOMAIN rest \cup {split[1]} |-> IF k = split[1] THEN split[2] ELSE rest[k]]
           ELSE rest

\* Env on a successful listing command
Env(stored) == ParseEnvLines(EnvListing(stored))

(***************************************************************************)
(* pkg/oc: envToSlice and DefaultOc.SetEnv, and what the env command does  *)
(* with the arguments it is given.                                         *)
(***************************************************************************)
\* every entry written as KEY=VALUE, the deletion marker like any other value
envToSliceAlwaysEq(env) ==
  {k \o <<Eq>> \o env[k] : k \in DOMAIN env}

\* one argument per map entry: KEY- for the deletion marker, KEY=VALUE otherwise
envToSlice(env) ==
  {IF env[k] = DeletionMarker THEN k \o env[k] ELSE k \o <<Eq>> \o env[k] : k \in DOMAIN env}

\* "oc env <type> <name> args": KEY=VALUE stores VALUE under KEY, KEY- removes KEY
PlatformSetEnv(stored, args) ==
  LET sets    == {a \in args : Contains(a, <<Eq>>)}
      removes == {SubSeq(a, 1, Len(a) - 1) : a \in {b \in args \ sets : HasSuffix(b, <<"-">>)}}
      keyOf(a) == SplitChar(a, Eq)[1]
      valOf(a) == SubSeq(a, Len(keyOf(a)) + 2, Len(a))
      setKeys == {keyOf(a) : a \in sets}
  IN  [k \in ((DOMAIN stored) \ removes) \cup setKeys |->
         IF k \in setKeys THEN valOf(CHOOSE a \in sets : keyOf(a) = k) ELSE stored[k]]

(***************************************************************************)
(* pkg/app: the binding prefix and the binding environment of a service.   *)
(***************************************************************************)
\* strings.ToUpper(strings.Replace(service, "-", "_", -1))
serviceEnvPrefix(service) == ToUpper(ReplaceAll(service, <<"-">>, <<"_">>))

\* the label of the database family a key belongs to, <<>> for none
LabelOfKey(k) ==
  IF HasPrefix(k, POSTGRESQL) THEN <<"p","o","s","t","g","r","e","s","q","l">>
  ELSE IF HasPrefix(k, MYSQL) THEN <<"m","y","s","q","l">>
  ELSE IF HasPrefix(k, MONGODB) THEN <<"m","o","n","g","o","d","b">>
  ELSE <<>>

\* stands for the value of a binding key that is not written
Absent == <<"absent">>

\* The binding environments a service environment can give: the label is the
\* one of the family key met last, a credential the value of the matching key
\* met last, and the order of a map iteration is not fixed.
deriveBindingEnv(serviceEnv, prefix) ==
  LET family   == {k \in DOMAIN serviceEnv : LabelOfKey(k) # <<>>}
      labels   == IF family = {} THEN {<<>>} ELSE {LabelOfKey(k) : k \in family}
      cands(suffix) == {serviceEnv[k] : k \in {j \in DOMAIN serviceEnv : HasSuffix(j, suffix)}}
      opt(suffix)   == IF cands(suffix) = {} THEN {Absent} ELSE cands(suffix)
      make(l, u, p, d) ==
        LET vals == [s \in {SufLabel, SufUser, SufPassword, SufDatabase} |->
                       IF s = SufLabel THEN l ELSE IF s = SufUser THEN u
                       ELSE IF s = SufPassword THEN p ELSE d]
            sufs == {SufLabel} \cup {s \in {SufUser, SufPassword, SufDatabase} : vals[s] # Absent}
        IN  [k \in {prefix \o s : s \in sufs} |-> vals[SubSeq(k, Len(prefix) + 1, Len(k))]]
  IN  {make(l, u, p, d) : l \in labels, u \in opt(SufUser), p \in opt(SufPassword), d \in opt(SufDatabase)}

\* strings.Fields of the CF_BOUND_SERVICES value
boundPrefixes(env) == Fields(Lookup(env, BoundServices))


(***************************************************************************)
(* The platform the tool talks to: the deployment configs of the services  *)
(* and their stored variables, and the outcomes of the get command.        *)
(***************************************************************************)
\* the names of the services deployed in the project
Services == {<<"a">>, <<"b">>, <<"a","b">>, <<"a","-","b">>}

\* the variables stored on the deployment config of each service
ServiceEnv(service) ==
  CASE service = <<"a">> ->
         (<<"M","Y","S","Q","L","_","U","S","E","R">> :> <<"u">>)
    [] service = <<"b">> ->
         (<<"A","P","P","_","U","S","E","R">> :> <<"u">>)
    [] service = <<"a","b">> ->
         (<<"P","O","S","T","G","R","E","S","Q","L","_","U","S","E","R">> :> <<"u">>) @@
         (<<"P","O","S","T","G","R","E","S","Q","L","_","P","A","S","S","W","O","R","D">> :> <<"p">>) @@
         (<<"P","O","S","T","G","R","E","S","Q","L","_","D","A","T","A","B","A","S","E">> :> <<"d">>)
    [] service = <<"a","-","b">> ->
         (<<"M","O","N","G","O","D","B","_","U","S","E","R">> :> <<"u">>) @@
         (<<"M","O","N","G","O","D","B","_","P","A","S","S","W","O","R","D">> :> <<"p","=">>) @@
         (<<"M","Y","S","Q","L","_","D","A","T","A","B","A","S","E">> :> <<"d">>)
    [] service = <<"c">> ->
         (<<"P","O","S","T","G","R","E","S","Q","L","_","U","S","E","R">> :> <<"u">>) @@
         (<<"P","O","S","T","G","R","E","S","Q","L","_","A","D","M","I","N","_","U","S","E","R">> :> <<"v">>)

\* the outcomes "oc get <type> <name>" can have for an object that exists or not
OcGet(present) ==
  IF present
  THEN {[out |-> <<"N","A","M","E"," ","f","o","o">>, failed |-> FALSE],
        [out |-> <<"e","r","r","o","r">>, failed |-> TRUE]}
  ELSE {[out |-> <<"d","c"," ","\"","f","o","o","\""," ","n","o","t"," ","f","o","u","n","d">>, failed |-> TRUE],
        [out |-> <<"e","r","r","o","r">>, failed |-> TRUE]}


(***************************************************************************)
(* pkg/app: the pieces of BindService and UnbindService.                   *)
(***************************************************************************)
\* the guard of BindService: prefix occurs in bound as a whole word
AlreadyBoundSubstring(bound, prefix) == Contains(bound, prefix)

AlreadyBound(bound, prefix) ==
  \E i \in 1..(Len(bound) - Len(prefix) + 1) :
     /\ SubSeq(bound, i, i + Len(prefix) - 1) = prefix
     /\ (i = 1 \/ IsSpace(bound[i - 1]))
     /\ (i + Len(prefix) - 1 = Len(bound) \/ IsSpace(bound[i + Len(prefix)]))

\* the delta BindService writes: the binding keys and the extended list
BindDeltaUntrimmed(derived, bound, prefix) ==
  [k \in DOMAIN derived \cup {BoundServices} |->
     IF k = BoundServices THEN bound \o <<" ">> \o prefix ELSE derived[k]]

BindDelta(derived, bound, prefix) ==
  [k \in DOMAIN derived \cup {BoundServices} |->
     IF k = BoundServices THEN TrimLeft(bound \o <<" ">> \o prefix) ELSE derived[k]]

\* the writes BindService issues, in order
BindWritesSplit(derived, bound, prefix) ==
  <<derived, Restrict(BindDelta(derived, bound, prefix), {BoundServices})>>

BindWrites(derived, bound, prefix) == <<BindDelta(derived, bound, prefix)>>

\* the guard of UnbindService: prefix does not occur in bound
NotBoundSwapped(bound, prefix) == ~Contains(prefix, bound)

NotBound(bound, prefix) == ~Contains(bound, prefix)

\* the delta UnbindService writes: deletion markers and the shortened list
UnbindDeltaAllKeys(existing, bound, prefix) ==
  [k \in DOMAIN existing \cup {BoundServices} |->
     IF k = BoundServices THEN TrimSpace(ReplaceAll(bound, prefix, <<>>)) ELSE DeletionMarker]

UnbindDelta(existing, bound, prefix) ==
  [k \in {j \in DOMAIN existing : HasPrefix(j, prefix)} \cup {BoundServices} |->
     IF k = BoundServices THEN TrimSpace(ReplaceAll(bound, prefix, <<>>)) ELSE DeletionMarker]

\* the writes UnbindService issues, in order
UnbindWrites(existing, bound, prefix) == <<UnbindDelta(existing, bound, prefix)>>

\* the stored variables after the env commands of writes have run in order
RECURSIVE ApplyWrites(_, _)
ApplyWrites(stored, writes) ==
  IF writes = <<>> THEN stored
  ELSE ApplyWrites(PlatformSetEnv(stored, envToSlice(Head(writes))), Tail(writes))

(***************************************************************************)
(* State.                                                                  *)
(***************************************************************************)
VARIABLES
  dcExists,   \* the application's deployment config exists on the platform
  dcEnv,      \* the variables stored on the application's deployment config
  last,       \* the last BindService / UnbindService call and what it did
  exOut,      \* Exists: combined output of the get command
  exFailed,   \* Exists: the get command returned an error
  exRes,      \* Exists: the call's result
  ocCall,     \* the last call of a DefaultOc method: its inputs and its result
  race,       \* two invocations binding services to the same application
  plat,       \* the platform's objects other than the deployment config
  push,       \* a Push run: its application, its position, what it issued
  fn          \* the last call of a function of pkg/app or cmd: inputs and result

vars == <<dcExists, dcEnv, last, exOut, exFailed, exRes, ocCall, race, plat, push, fn>>

EmptyEnv == [k \in {} |-> <<>>]

NoCall == [op |-> "none", svc |-> <<>>, err |-> "nil", read |-> FALSE,
           before |-> EmptyEnv, pre |-> EmptyEnv, writes |-> <<>>]

Call(op, svc, err, read, pre, writes) ==
  [op |-> op, svc |-> svc, err |-> err, read |-> read,
   before |-> dcEnv, pre |-> pre, writes |-> writes]

NoExists == [called |-> FALSE, exists |-> FALSE, err |-> "nil"]

\* no method of DefaultOc was called yet
NoOc == [op |-> "none"]

\* no invocation is running
NoRace == [on |-> FALSE]

\* a project with nothing in it, nobody logged in
NoPlat == [loggedIn |-> FALSE, bc |-> FALSE, bcEnv |-> EmptyEnv, built |-> FALSE,
           svc |-> FALSE, route |-> FALSE]

\* no Push is running
NoPush == [pc |-> "idle"]

\* no function was called yet
NoFn == [op |-> "none"]

\* the application was pushed without services, or not pushed yet
Init ==
  /\ dcExists \in BOOLEAN
  /\ dcEnv = IF dcExists THEN (<<"F","O","O">> :> <<"x">>) ELSE EmptyEnv
  /\ last = NoCall
  /\ exOut = <<>>
  /\ exFailed = FALSE
  /\ exRes = NoExists
  /\ ocCall = NoOc
  /\ race = NoRace
  /\ plat = NoPlat
  /\ push = NoPush
  /\ fn = NoFn

(***************************************************************************)
(* BindService(service): one call, from the existence check to the write.  *)
(* Each of the two listing commands and the env command can fail.          *)
(***************************************************************************)
BindService(service) ==
  LET prefix   == serviceEnvPrefix(service)
      existing == Env(dcEnv)
      bound    == Lookup(existing, BoundServices)
      fail(err, read, pre, writes) ==
        /\ last' = Call("bind", service, err, read, pre, writes)
        /\ UNCHANGED dcEnv
  IN  /\ UNCHANGED <<dcExists, exRes, ocCall, race, plat, push, fn>>
      /\ \E g \in OcGet(dcExists) :
           /\ exOut' = g.out
           /\ exFailed' = g.failed
           /\ LET r == Exists(g.out, g.failed)
              IN  IF r.err # "nil" THEN fail(r.err, FALSE, EmptyEnv, <<>>)
               ELSE IF ~r.exists THEN fail("application not found", FALSE, EmptyEnv, <<>>)
               ELSE \/ fail("service not found", FALSE, EmptyEnv, <<>>)
                    \/ fail("env not found", FALSE, EmptyEnv, <<>>)
                    \/ IF AlreadyBound(bound, prefix)
                       THEN fail("already bound", TRUE, existing, <<>>)
                       ELSE \E derived \in deriveBindingEnv(Env(ServiceEnv(service)), prefix) :
                              LET writes == BindWrites(derived, bound, prefix)
                              IN  /\ Len(BindDelta(derived, bound, prefix)[BoundServices]) <= MaxBoundLen
                                  /\ \/ /\ dcEnv' = ApplyWrites(dcEnv, writes)
                                        /\ last' = Call("bind", service, "nil", TRUE, existing, writes)
                                     \/ fail("Error updating environment", TRUE, existing,
                                             <<Head(writes)>>)

(***************************************************************************)
(* UnbindService(service): one call, from the existence check to the       *)
(* write.  The listing command and the env command can fail.               *)
(***************************************************************************)
UnbindService(service) ==
  LET prefix   == serviceEnvPrefix(service)
      existing == Env(dcEnv)
      bound    == Lookup(existing, BoundServices)
      fail(err, read, pre, writes) ==
        /\ last' = Call("unbind", service, err, read, pre, writes)
        /\ UNCHANGED dcEnv
  IN  /\ UNCHANGED <<dcExists, exRes, ocCall, race, plat, push, fn>>
      /\ \E g \in OcGet(dcExists) :
           /\ exOut' = g.out
           /\ exFailed' = g.failed
           /\ LET r == Exists(g.out, g.failed)
              IN  IF r.err # "nil" THEN fail(r.err, FALSE, EmptyEnv, <<>>)
               ELSE IF ~r.exists THEN fail("application not found", FALSE, EmptyEnv, <<>>)
               ELSE \/ fail("env not found", FALSE, EmptyEnv, <<>>)
                    \/ IF NotBound(bound, prefix)
                       THEN fail("not bound", TRUE, existing, <<>>)
                       ELSE LET writes == UnbindWrites(existing, bound, prefix)
                            IN  \/ /\ dcEnv' = ApplyWrites(dcEnv, writes)
                                   /\ last' = Call("unbind", service, "nil", TRUE, existing, writes)
                                \/ fail("Error updating environment", TRUE, existing,
                                        <<Head(writes)>>)

Next ==
  \/ \E service \in Services : BindService(service)
  \/ \E service \in Services : UnbindService(service)

Spec == Init /\ [][Next]_vars


(***************************************************************************)
(* Exists as a function of the get command's outcome: the outputs are put  *)
(* together from fragments, so that "not found" occurs at the start, in    *)
(* the middle, at the end, split over two fragments, or nearly.            *)
(***************************************************************************)
OutHead == {<<>>, <<"E","r","r","o","r",":"," ">>, <<"n","o","t"," ">>}
OutBody == {<<>>, NotFound, <<"f","o","u","n","d">>, <<"N","o","t"," ","f","o","u","n","d">>, <<"n","o","t","f","o","u","n","d">>,
            <<"n","o","t"," "," ","f","o","u","n","d">>, <<"N","A","M","E"," ","f","o","o">>}
OutTail == {<<>>, <<"\n">>, <<" ","f","o","u","n","d">>}
GetOutputs == {h \o b \o e : h \in OutHead, b \in OutBody, e \in OutTail}

InitExists ==
  /\ dcExists = FALSE
  /\ dcEnv = EmptyEnv
  /\ last = NoCall
  /\ exOut \in GetOutputs
  /\ exFailed \in BOOLEAN
  /\ exRes = NoExists
  /\ ocCall = NoOc
  /\ race = NoRace
  /\ plat = NoPlat
  /\ push = NoPush
  /\ fn = NoFn

ExistsCall ==
  /\ ~exRes.called
  /\ exRes' = [called |-> TRUE,
               exists |-> Exists(exOut, exFailed).exists,
               err    |-> Exists(exOut, exFailed).err]
  /\ UNCHANGED <<dcExists, dcEnv, last, exOut, exFailed, ocCall, race, plat, push, fn>>

NextExists == ExistsCall

SpecExists == InitExists /\ [][NextExists]_vars

(***************************************************************************)
(* Properties of Exists.                                                   *)
(***************************************************************************)
\* the output has "not found" somewhere in it
HasNotFound(out) == \E i \in 1..Len(out) : i + 8 <= Len(out) /\ \A j \in 1..9 : out[i + j - 1] = NotFound[j]

\* C1: whenever the combined output of the get command contains "not found",
\* Exists returns (false, no error), whether the command succeeded or failed.
C1_NotFoundIsFalseNil ==
  (exRes.called /\ HasNotFound(exOut)) => (~exRes.exists /\ exRes.err = "nil")

\* C1 witness: the command failed, its output has "not found", and Exists
\* returned (false, nil)
C1_Witness ==
  exRes.called /\ HasNotFound(exOut) /\ exFailed /\ ~exRes.exists /\ exRes.err = "nil"

\* C2: when the output does not contain "not found", Exists returns
\* (false, error) if the command failed and (true, no error) if it succeeded;
\* it never returns true together with an error.
C2_ErrorOrTrue ==
  exRes.called =>
    /\ (~HasNotFound(exOut) /\ exFailed) => (~exRes.exists /\ exRes.err # "nil")
    /\ (~HasNotFound(exOut) /\ ~exFailed) => (exRes.exists /\ exRes.err = "nil")
    /\ ~(exRes.exists /\ exRes.err # "nil")

\* C2 witness: the command failed without "not found" in its output and
\* Exists returned (false, error)
C2_Witness ==
  exRes.called /\ ~HasNotFound(exOut) /\ exFailed /\ ~exRes.exists /\ exRes.err # "nil"


(***************************************************************************)
(* Properties of BindService and UnbindService.                            *)
(***************************************************************************)
\* the prefix of the service of the last call
LastPrefix == serviceEnvPrefix(last.svc)

\* the CF_BOUND_SERVICES value the last call read
LastBound == Lookup(last.pre, BoundServices)

\* the white-space separated tokens of a CF_BOUND_SERVICES value
Tokens(bound) == Range(Fields(bound))

\* no element occurs twice in the sequence
NoDuplicates(seq) == \A i, j \in DOMAIN seq : i # j => seq[i] # seq[j]

\* the four binding keys of a prefix
BindingKeys(prefix) == {prefix \o s : s \in {SufUser, SufPassword, SufDatabase, SufLabel}}

\* strings.Join
RECURSIVE Join(_, _)
Join(seq, sep) ==
  IF seq = <<>> THEN <<>>
  ELSE IF Len(seq) = 1 THEN seq[1]
  ELSE seq[1] \o sep \o Join(Tail(seq), sep)

\* the sequence without the elements equal to x
RECURSIVE Without(_, _)
Without(seq, x) ==
  IF seq = <<>> THEN <<>>
  ELSE IF Head(seq) = x THEN Without(Tail(seq), x)
  ELSE <<Head(seq)>> \o Without(Tail(seq), x)

\* C3: CF_BOUND_SERVICES never contains the same prefix token twice, and a
\* BindService of a service whose prefix is a token of the list returns
\* "already bound" without a write.
C3_NoDuplicateToken ==
  /\ NoDuplicates(boundPrefixes(dcEnv))
  /\ (last.op = "bind" /\ last.read /\ LastPrefix \in Tokens(LastBound))
       => (last.err = "already bound" /\ last.writes = <<>>)

\* C4: a prefix is a token of CF_BOUND_SERVICES if and only if its four
\* binding keys are all present in the deployment's environment.
C4_TokenIffFourKeys ==
  \A service \in Services :
    LET prefix == serviceEnvPrefix(service)
    IN  (prefix \in Tokens(Lookup(dcEnv, BoundServices)))
          <=> (BindingKeys(prefix) \subseteq DOMAIN dcEnv)

\* the single write of a successful call carries the list and the binding keys
\* (bind: the label key; unbind: every key the call read that starts with the prefix)
WholeDelta(delta) ==
  /\ BoundServices \in DOMAIN delta
  /\ last.op = "bind" => (LastPrefix \o SufLabel) \in DOMAIN delta
  /\ last.op = "unbind" => \A k \in DOMAIN last.pre : HasPrefix(k, LastPrefix) => k \in DOMAIN delta

\* C5 as stated: at most one write per call, exactly one write with the whole
\* delta when the call succeeds, and no write when the call returns an error.
C5_OneWriteOrNone ==
  last.op # "none" =>
    /\ Len(last.writes) <= 1
    /\ last.err = "nil" => (Len(last.writes) = 1 /\ WholeDelta(last.writes[1]))
    /\ last.err # "nil" => last.writes = <<>>

\* C5 amended: at most one write per call; exactly one write with the whole
\* delta when the call succeeds; no write and an unchanged environment when
\* the call returns an error raised before the write; exactly one write, the
\* whole delta, when the error returned is the failure of the write itself.
C5_OneWriteAtMost ==
  last.op # "none" =>
    /\ Len(last.writes) <= 1
    /\ last.err = "nil" => (Len(last.writes) = 1 /\ WholeDelta(last.writes[1]))
    /\ last.err = "Error updating environment"
         => (Len(last.writes) = 1 /\ WholeDelta(last.writes[1]))
    /\ last.err \notin {"nil", "Error updating environment"}
         => (last.writes = <<>> /\ dcEnv = last.before)

\* C5 witness: a BindService call failed in its write, after issuing that one
\* write with the binding keys and the list together
C5_Witness ==
  /\ last.op = "bind" /\ last.err = "Error updating environment"
  /\ Len(last.writes) = 1
  /\ BoundServices \in DOMAIN last.writes[1]
  /\ (LastPrefix \o SufUser) \in DOMAIN last.writes[1]

\* C6: a successful BindService writes exactly the binding keys derived from
\* the service's environment plus CF_BOUND_SERVICES set to the previous value,
\* one space, and the prefix (the previous tokens kept in order), or to the
\* prefix alone when the previous value is empty or missing.
C6_BindDelta ==
  (last.op = "bind" /\ last.err = "nil") =>
    LET delta == last.writes[1]
        keys  == DOMAIN delta \ {BoundServices}
    IN  /\ Len(last.writes) = 1
        /\ BoundServices \in DOMAIN delta
        /\ [k \in keys |-> delta[k]] \in deriveBindingEnv(Env(ServiceEnv(last.svc)), LastPrefix)
        /\ delta[BoundServices] = IF LastBound = <<>> THEN LastPrefix
                                  ELSE LastBound \o <<" ">> \o LastPrefix
        /\ Fields(delta[BoundServices]) = Fields(LastBound) \o <<LastPrefix>>
        /\ delta[BoundServices][1] # " "

\* C6 witness: a successful BindService on an application with other services
\* bound
C6_Witness ==
  /\ last.op = "bind" /\ last.err = "nil"
  /\ Len(Fields(LastBound)) >= 1
  /\ Len(Fields(last.writes[1][BoundServices])) = Len(Fields(LastBound)) + 1

\* C7: BindService rejects a service as already bound if and only if its
\* prefix is one of the white-space delimited tokens of the current list; a
\* prefix that is only part of a bound token is accepted and bound.
C7_RejectIffToken ==
  (last.op = "bind" /\ last.read) =>
    /\ (last.err = "already bound") <=> (LastPrefix \in Tokens(LastBound))
    /\ last.err = "nil" => LastPrefix \in Tokens(Lookup(dcEnv, BoundServices))

\* C7 witness: a service was bound whose prefix occurs only inside a token of
\* the list
C7_Witness ==
  /\ last.op = "bind" /\ last.err = "nil"
  /\ Contains(LastBound, LastPrefix)
  /\ LastPrefix \notin Tokens(LastBound)

\* C8: UnbindService of a service whose prefix does not occur in the current
\* list returns "not bound", issues no write and leaves the environment as it was.
C8_NotBoundNoWrite ==
  (last.op = "unbind" /\ last.read
     /\ ~(\E i \in 1..Len(LastBound) : HasPrefix(SubSeq(LastBound, i, Len(LastBound)), LastPrefix)))
    => (last.err = "not bound" /\ last.writes = <<>> /\ dcEnv = last.before)

\* C8 witness: an UnbindService of a service that is not bound, on an
\* application that has another service bound, returned "not bound"
C8_Witness ==
  /\ last.op = "unbind" /\ last.err = "not bound"
  /\ LastBound # <<>>
  /\ last.writes = <<>>

\* C9: a successful UnbindService writes exactly every key of the current
\* environment that starts with the prefix, set to "-", and CF_BOUND_SERVICES
\* set to the current value with the prefix removed and trimmed; no other key.
C9_UnbindDelta ==
  (last.op = "unbind" /\ last.err = "nil") =>
    LET delta == last.writes[1]
    IN  /\ Len(last.writes) = 1
        /\ DOMAIN delta = {k \in DOMAIN last.pre : HasPrefix(k, LastPrefix)} \cup {BoundServices}
        /\ \A k \in DOMAIN delta \ {BoundServices} : delta[k] = <<"-">>
        /\ delta[BoundServices] = TrimSpace(ReplaceAll(LastBound, LastPrefix, <<>>))
        /\ Len(LastPrefix) = 1 => ~Contains(delta[BoundServices], LastPrefix)
        /\ delta[BoundServices] = <<>>
             \/ (~IsSpace(delta[BoundServices][1])
                   /\ ~IsSpace(delta[BoundServices][Len(delta[BoundServices])]))

\* C9 witness: a successful UnbindService on an environment with binding keys
\* of the service, a key of another name, and another bound service
C9_Witness ==
  /\ last.op = "unbind" /\ last.err = "nil"
  /\ LastPrefix \in Tokens(LastBound)
  /\ \E k \in DOMAIN last.pre : HasPrefix(k, LastPrefix)
  /\ \E k \in DOMAIN last.pre : ~HasPrefix(k, LastPrefix) /\ k # BoundServices
  /\ last.writes[1][BoundServices] # <<>>

\* the environments a successful BindService(service) can leave, from stored
BindOutcomes(stored, service) ==
  LET prefix == serviceEnvPrefix(service)
      bound  == Lookup(Env(stored), BoundServices)
  IN  IF AlreadyBound(bound, prefix) THEN {}
      ELSE {ApplyWrites(stored, BindWrites(derived, bound, prefix)) :
              derived \in deriveBindingEnv(Env(ServiceEnv(service)), prefix)}

\* the environment a successful UnbindService(service) leaves, from stored
UnbindOutcome(stored, service) ==
  LET prefix == serviceEnvPrefix(service)
      bound  == Lookup(Env(stored), BoundServices)
  IN  ApplyWrites(stored, UnbindWrites(Env(stored), bound, prefix))

\* stored as it is without the binding of service: its four keys gone, its token
\* gone, the other bound prefixes in their order
WithoutBinding(stored, service) ==
  LET prefix == serviceEnvPrefix(service)
  IN  [k \in DOMAIN stored \ BindingKeys(prefix) |->
         IF k = BoundServices
         THEN Join(Without(Fields(stored[k]), prefix), <<" ">>)
         ELSE stored[k]]

\* C10: where a service is bound, UnbindService followed by BindService of it
\* gives the environment a fresh BindService of it gives.
C10_RebindIsFreshBind ==
  \A service \in Services :
    serviceEnvPrefix(service) \in Tokens(Lookup(dcEnv, BoundServices))
      => BindOutcomes(UnbindOutcome(dcEnv, service), service)
           = BindOutcomes(WithoutBinding(dcEnv, service), service)



(***************************************************************************)
(* pkg/oc: the methods of DefaultOc as functions of their arguments and of *)
(* how the oc command they run ends.                                       *)
(***************************************************************************)
MaxLines == 3

\* how a command ends: exit status 0, another exit status, or it could not be started
RunOutcomes == {"ok", "exit status 1", "not started"}

\* the err of Run / CombinedOutput is not nil
RunFailed(outcome) == outcome # "ok"

SpawnedAgainOnFailure(args, failed) == IF failed THEN <<args, args>> ELSE <<args>>

\* oc.Exec(args...) followed by one Run or CombinedOutput: the processes a
\* method spawns for a command, whatever the end of the command
Spawned(args, failed) == <<args>>

\* the arguments of the commands of LoggedIn, Project, Exists and Env
WhoamiArgs == <<<<"w","h","o","a","m","i">>>>
ProjectArgs == <<<<"p","r","o","j","e","c","t">>, <<"-","q">>>>
GetArgs(objType, name) == <<<<"g","e","t">>, objType, name>>
EnvListArgs(objType, name) == <<<<"e","n","v">>, objType, name, <<"-","-","l","i","s","t">>>>

\* DefaultOc.Project: the output and the error of the command, as they are
Project(output, outcome) == [out |-> output, err |-> IF RunFailed(outcome) THEN outcome ELSE "nil"]

LoggedInInverted(failed) == IF failed THEN TRUE ELSE FALSE

\* DefaultOc.LoggedIn: whoami's error decides, the result is one boolean
LoggedIn(failed) == IF failed THEN FALSE ELSE TRUE

\* the message of the error Env returns
EnvError(objType, name) ==
  <<"E","r","r","o","r",":"," ">> \o objType \o <<" ">> \o name \o <<" ","n","o","t"," ","f","o","u","n","d","\n">>

OcEnvFirstWins(objType, name, output, failed) ==
  IF failed
  THEN [hasMap |-> FALSE, env |-> EmptyEnv, err |-> EnvError(objType, name)]
  ELSE LET lines == SplitChar(output, "\n")
       IN  [hasMap |-> TRUE,
            env |-> ParseEnvLines([i \in 1..Len(lines) |-> lines[Len(lines) + 1 - i]]),
            err |-> <<>>]

OcEnvParseFirst(objType, name, output, failed) ==
  [hasMap |-> TRUE, env |-> ParseEnvLines(SplitChar(output, "\n")),
   err |-> IF failed THEN EnvError(objType, name) ELSE <<>>]

\* DefaultOc.Env: nil and an error when the listing command fails, else the
\* map read from the lines of its output; err <<>> is nil
OcEnv(objType, name, output, failed) ==
  IF failed
  THEN [hasMap |-> FALSE, env |-> EmptyEnv, err |-> EnvError(objType, name)]
  ELSE [hasMap |-> TRUE, env |-> ParseEnvLines(SplitChar(output, "\n")), err |-> <<>>]

\* the orders in which a Go map iteration can append the arguments
ArgOrders(slice) ==
  {s \in [1..Cardinality(slice) -> slice] :
     \A i, j \in 1..Cardinality(slice) : s[i] = s[j] => i = j}

\* DefaultOc.SetEnv: the arguments of the command
SetEnvArgs(objType, name, slice) == <<<<"e","n","v">>, objType, name>> \o slice

\* DefaultOc.SetEnv: the error returned
SetEnvErr(failed) == IF failed THEN "Error updating environment" ELSE "nil"

\* DefaultOc.NewBuild: the arguments of the command
NewBuildArgs(image, name, slice) ==
  <<<<"n","e","w","-","b","u","i","l","d">>, image, <<"-","-","b","i","n","a","r","y","=","t","r","u","e">>, <<"-","-","n","a","m","e","=">> \o name>> \o slice

NewBuildPropagates(failed) == IF failed THEN "Error creating build" ELSE "nil"

\* DefaultOc.NewBuild: the error returned, the command's own error is dropped
NewBuild(failed) == "nil"



(***************************************************************************)
(* The methods of DefaultOc called on their own, as the tests of pkg/oc    *)
(* call them: with every argument and every end of the command below.      *)
(***************************************************************************)
OcTypes  == {<<"d","c">>, <<"b","c">>}
OcNames  == {<<"f","o","o">>}
OcImages == {<<"m","y","-","i","m","a","g","e">>}

\* the Go maps handed to SetEnv and NewBuild: two keys, plain values, the empty
\* value, the deletion marker and a value that only ends like it
OcKeys    == {<<"A">>, <<"B">>}
OcValues  == {<<"1">>, <<>>, DeletionMarker, <<"x","-">>}
OcEnvMaps == UNION {[K -> OcValues] : K \in SUBSET OcKeys}

\* the lines the listing command can print: empty, a comment, variables, the
\* same variable again, lines with two "=", with nothing around the "=", with none
OcLines == {<<>>, <<"#"," ","c">>, <<"A","=","1">>, <<"A","=","2">>, <<"B","=","1">>, <<"A","=","1","=","2">>, <<"=">>, <<"A","=">>, <<"A">>}
OcLineSeqs == UNION {[1..n -> OcLines] : n \in 0..MaxLines}

InitOc ==
  /\ dcExists = FALSE
  /\ dcEnv = EmptyEnv
  /\ last = NoCall
  /\ exOut = <<>>
  /\ exFailed = FALSE
  /\ exRes = NoExists
  /\ ocCall = NoOc
  /\ race = NoRace
  /\ plat = NoPlat
  /\ push = NoPush
  /\ fn = NoFn

LoggedInCall ==
  /\ ocCall.op = "none"
  /\ \E outcome \in RunOutcomes :
       ocCall' = [op |-> "LoggedIn", outcome |-> outcome,
                  cmds |-> Spawned(WhoamiArgs, RunFailed(outcome)),
                  res |-> LoggedIn(RunFailed(outcome))]
  /\ UNCHANGED <<dcExists, dcEnv, last, exOut, exFailed, exRes, race, plat, push, fn>>

EnvCall ==
  /\ ocCall.op = "none"
  /\ \E objType \in OcTypes, name \in OcNames, lines \in OcLineSeqs, outcome \in RunOutcomes :
       ocCall' = [op |-> "Env", objType |-> objType, name |-> name, lines |-> lines,
                  outcome |-> outcome,
                  cmds |-> Spawned(EnvListArgs(objType, name), RunFailed(outcome)),
                  res |-> OcEnv(objType, name, Join(lines, <<"\n">>), RunFailed(outcome))]
  /\ UNCHANGED <<dcExists, dcEnv, last, exOut, exFailed, exRes, race, plat, push, fn>>

SetEnvCall ==
  /\ ocCall.op = "none"
  /\ \E objType \in OcTypes, name \in OcNames, env \in OcEnvMaps, outcome \in RunOutcomes :
       \E slice \in ArgOrders(envToSlice(env)) :
         ocCall' = [op |-> "SetEnv", objType |-> objType, name |-> name, env |-> env,
                    outcome |-> outcome,
                    args |-> SetEnvArgs(objType, name, slice),
                    cmds |-> Spawned(SetEnvArgs(objType, name, slice), RunFailed(outcome)),
                    err |-> SetEnvErr(RunFailed(outcome))]
  /\ UNCHANGED <<dcExists, dcEnv, last, exOut, exFailed, exRes, race, plat, push, fn>>

NewBuildCall ==
  /\ ocCall.op = "none"
  /\ \E image \in OcImages, name \in OcNames, env \in OcEnvMaps, outcome \in RunOutcomes :
       \E slice \in ArgOrders(envToSlice(env)) :
         ocCall' = [op |-> "NewBuild", image |-> image, name |-> name, env |-> env,
                    outcome |-> outcome,
                    args |-> NewBuildArgs(image, name, slice),
                    cmds |-> Spawned(NewBuildArgs(image, name, slice), RunFailed(outcome)),
                    err |-> NewBuild(RunFailed(outcome))]
  /\ UNCHANGED <<dcExists, dcEnv, last, exOut, exFailed, exRes, race, plat, push, fn>>

ProjectCall ==
  /\ ocCall.op = "none"
  /\ \E output \in {<<>>, <<"m","y","p","r","o","j","e","c","t">>}, outcome \in RunOutcomes :
       ocCall' = [op |-> "Project", outcome |-> outcome,
                  cmds |-> Spawned(ProjectArgs, RunFailed(outcome)),
                  res |-> Project(output, outcome)]
  /\ UNCHANGED <<dcExists, dcEnv, last, exOut, exFailed, exRes, race, plat, push, fn>>

OcExistsCall ==
  /\ ocCall.op = "none"
  /\ \E objType \in OcTypes, name \in OcNames, present \in BOOLEAN :
       \E g \in OcGet(present) :
         ocCall' = [op |-> "Exists", objType |-> objType, name |-> name,
                    outcome |-> IF g.failed THEN "exit status 1" ELSE "ok",
                    output |-> g.out,
                    cmds |-> Spawned(GetArgs(objType, name), g.failed),
                    res |-> Exists(g.out, g.failed)]
  /\ UNCHANGED <<dcExists, dcEnv, last, exOut, exFailed, exRes, race, plat, push, fn>>

NextOc ==
  \/ LoggedInCall
  \/ ProjectCall
  \/ OcExistsCall
  \/ EnvCall
  \/ SetEnvCall
  \/ NewBuildCall

SpecOc == InitOc /\ [][NextOc]_vars



(***************************************************************************)
(* Properties of the methods of DefaultOc.                                 *)
(***************************************************************************)
\* the argument the env command is to get for one map entry
EntryArg(key, value) ==
  IF value = <<"-">> THEN key \o <<"-">> ELSE key \o <<"=">> \o value

\* C17: the command of SetEnv is env, the type and the name followed by exactly
\* one argument per map entry, KEY- for an entry whose value is "-" and
\* KEY=VALUE for every other one; NewBuild puts its environment after its four
\* leading arguments in the same way
C17_OneArgumentPerEntry ==
  ocCall.op \in {"SetEnv", "NewBuild"} =>
    LET lead == IF ocCall.op = "SetEnv" THEN 3 ELSE 4
        rest == SubSeq(ocCall.args, lead + 1, Len(ocCall.args))
    IN  /\ ocCall.op = "SetEnv" =>
             SubSeq(ocCall.args, 1, 3) = <<<<"e","n","v">>, ocCall.objType, ocCall.name>>
        /\ Len(rest) = Cardinality(DOMAIN ocCall.env)
        /\ \A k \in DOMAIN ocCall.env :
             \E i \in DOMAIN rest : rest[i] = EntryArg(k, ocCall.env[k])

\* SetEnv was called with a deletion and a plain entry, and the command got A- and B=1
C17_Witness ==
  /\ ocCall.op = "SetEnv"
  /\ ocCall.env = (<<"A">> :> <<"-">>) @@ (<<"B">> :> <<"1">>)
  /\ ocCall.args = <<<<"e","n","v">>, <<"d","c">>, <<"f","o","o">>, <<"A","-">>, <<"B","=","1">>>>

\* the number of "=" in a line
EqCount(line) == Cardinality({i \in DOMAIN line : line[i] = "="})

\* the lines of the listing that have exactly one "="
OneEqLines(lines) == {i \in DOMAIN lines : EqCount(lines[i]) = 1}

\* what stands before and after the "=" of such a line
BeforeEq(line) == SubSeq(line, 1, (CHOOSE i \in DOMAIN line : line[i] = "=") - 1)
AfterEq(line) == SubSeq(line, (CHOOSE i \in DOMAIN line : line[i] = "=") + 1, Len(line))

\* C18: when the listing command succeeds, Env returns no error and a map with
\* exactly one entry per key of a line that has exactly one "=", its value taken
\* from the last such line; the other lines contribute nothing
C18_OneEntryPerOneEqLine ==
  ocCall.op = "Env" /\ ocCall.outcome = "ok" =>
    LET lines == ocCall.lines
        env   == ocCall.res.env
    IN  /\ ocCall.res.hasMap
        /\ ocCall.res.err = <<>>
        /\ DOMAIN env = {BeforeEq(lines[i]) : i \in OneEqLines(lines)}
        /\ \A i \in OneEqLines(lines) :
             (\A j \in OneEqLines(lines) : BeforeEq(lines[j]) = BeforeEq(lines[i]) => j <= i)
               => env[BeforeEq(lines[i])] = AfterEq(lines[i])

\* the listing printed A=1, A=2 and A=1=2, and Env returned A with the value 2 only
C18_Witness ==
  /\ ocCall.op = "Env"
  /\ ocCall.outcome = "ok"
  /\ ocCall.lines = <<<<"A","=","1">>, <<"A","=","2">>, <<"A","=","1","=","2">>>>
  /\ ocCall.res.env = (<<"A">> :> <<"2">>)

\* C19: when the listing command fails, Env returns no map and an error whose
\* message names the type and the name, whatever the command printed
C19_ListingFailureIsError ==
  ocCall.op = "Env" /\ ocCall.outcome # "ok" =>
    /\ ~ocCall.res.hasMap
    /\ ocCall.res.env = EmptyEnv
    /\ ocCall.res.err # <<>>
    /\ Contains(ocCall.res.err, ocCall.objType)
    /\ Contains(ocCall.res.err, ocCall.name)

\* the listing command printed a variable and failed, and Env returned no map
C19_Witness ==
  /\ ocCall.op = "Env"
  /\ ocCall.outcome = "exit status 1"
  /\ ocCall.lines = <<<<"A","=","1">>>>
  /\ ~ocCall.res.hasMap
  /\ ocCall.res.err = <<"E","r","r","o","r",":"," ","d","c"," ","f","o","o"," ","n","o","t"," ","f","o","u","n","d","\n">>

\* C20: LoggedIn returns one boolean, true exactly when whoami ended with exit
\* status 0 and false for every way it can fail
C20_LoggedInIffWhoamiSucceeds ==
  ocCall.op = "LoggedIn" =>
    /\ ocCall.res \in BOOLEAN
    /\ ocCall.res <=> ocCall.outcome = "ok"

\* whoami could not be started and LoggedIn returned false
C20_Witness ==
  /\ ocCall.op = "LoggedIn"
  /\ ocCall.outcome = "not started"
  /\ ocCall.res = FALSE



(***************************************************************************)
(* Two invocations of the tool, each binding a service to the same         *)
(* application.  Nothing orders the commands of one invocation with those  *)
(* of the other: each invocation reads the environment with one command    *)
(* and writes its delta with a later one.                                  *)
(***************************************************************************)
Procs == {1, 2}

RaceStart(s1, s2) ==
  [on |-> TRUE, svc |-> <<s1, s2>>, pc |-> <<"start", "start">>,
   err |-> <<"nil", "nil">>, pre |-> <<EmptyEnv, EmptyEnv>>,
   derived |-> <<EmptyEnv, EmptyEnv>>, wrote |-> <<>>]

\* the application is deployed, the two services differ
InitRace ==
  /\ dcExists = TRUE
  /\ dcEnv = (<<"F","O","O">> :> <<"x">>)
  /\ last = NoCall
  /\ exOut = <<>>
  /\ exFailed = FALSE
  /\ exRes = NoExists
  /\ ocCall = NoOc
  /\ race \in {RaceStart(s1, s2) : s1 \in Services, s2 \in Services} \ {RaceStart(s, s) : s \in Services}
  /\ plat = NoPlat
  /\ push = NoPush
  /\ fn = NoFn

\* invocation p returns err without having written
RaceFail(p, err) ==
  /\ race' = [race EXCEPT !.pc[p] = "done", !.err[p] = err]
  /\ UNCHANGED dcEnv

\* invocation p up to its guard: existence check, the two listings, the derivation
RaceRead(p) ==
  LET prefix   == serviceEnvPrefix(race.svc[p])
      existing == Env(dcEnv)
      bound    == Lookup(existing, BoundServices)
  IN  /\ race.on
      /\ race.pc[p] = "start"
      /\ UNCHANGED <<dcExists, last, exOut, exFailed, exRes, ocCall, plat, push, fn>>
      /\ \E g \in OcGet(dcExists) :
           LET r == Exists(g.out, g.failed)
           IN  IF r.err # "nil" THEN RaceFail(p, r.err)
               ELSE IF ~r.exists THEN RaceFail(p, "application not found")
               ELSE \/ RaceFail(p, "service not found")
                    \/ RaceFail(p, "env not found")
                    \/ IF AlreadyBound(bound, prefix)
                       THEN RaceFail(p, "already bound")
                       ELSE \E derived \in deriveBindingEnv(Env(ServiceEnv(race.svc[p])), prefix) :
                              /\ race' = [race EXCEPT !.pc[p] = "read", !.pre[p] = existing,
                                                      !.derived[p] = derived]
                              /\ UNCHANGED dcEnv

PendingWritesReread(p) ==
  BindWrites(race.derived[p], Lookup(Env(dcEnv), BoundServices),
             serviceEnvPrefix(race.svc[p]))

\* the writes invocation p issues: computed from the environment it read
PendingWrites(p) ==
  BindWrites(race.derived[p], Lookup(race.pre[p], BoundServices),
             serviceEnvPrefix(race.svc[p]))

\* invocation p writes its delta and returns
RaceWrite(p) ==
  /\ race.on
  /\ race.pc[p] = "read"
  /\ UNCHANGED <<dcExists, last, exOut, exFailed, exRes, ocCall, plat, push, fn>>
  /\ \/ /\ dcEnv' = ApplyWrites(dcEnv, PendingWrites(p))
        /\ race' = [race EXCEPT !.pc[p] = "done", !.wrote = Append(@, p)]
     \/ RaceFail(p, "Error updating environment")

NextRace ==
  \/ \E p \in Procs : RaceRead(p)
  \/ \E p \in Procs : RaceWrite(p)

SpecRace == InitRace /\ [][NextRace]_vars

(***************************************************************************)
(* Properties of two concurrent bindings.                                  *)
(***************************************************************************)
\* both invocations have returned without an error
BothSucceeded ==
  /\ race.on
  /\ race.pc = <<"done", "done">>
  /\ race.err = <<"nil", "nil">>

\* the prefix invocation p binds
RacePrefix(p) == serviceEnvPrefix(race.svc[p])

\* C11: when both invocations have reported success, the stored list holds the
\* prefix of the invocation that wrote last, and holds the prefix of the other
\* one exactly when the last writer had read the list after the other's write:
\* a last writer that read before the other wrote erases the other's prefix
C11_LastWriterWins ==
  BothSucceeded =>
    LET first  == race.wrote[1]
        second == race.wrote[2]
        final  == Tokens(Lookup(dcEnv, BoundServices))
    IN  /\ RacePrefix(second) \in final
        /\ RacePrefix(first) \in final
             <=> RacePrefix(first) \in Tokens(Lookup(race.pre[second], BoundServices))

\* both invocations reported success and the list holds one prefix only
C11_Witness ==
  /\ BothSucceeded
  /\ Tokens(Lookup(dcEnv, BoundServices)) = {RacePrefix(race.wrote[2])}
  /\ RacePrefix(race.wrote[1]) # RacePrefix(race.wrote[2])



(***************************************************************************)
(* pkg/app: Push.  The application pushed, and the pure parts of its       *)
(* steps.                                                                  *)
(***************************************************************************)
BuildpackUrl == <<"B","U","I","L","D","P","A","C","K","_","U","R","L">>
AppName == <<"f","o","o">>
Image == <<"m","y","-","i","m","a","g","e">>

\* the applications pushed: with and without a buildpack (one with an "=" in
\* its URL), bound services, memory limit; the path a directory or a file
PushApps ==
  [Name : {AppName},
   Buildpack : {<<>>, <<"b","p">>, <<"u","=","1">>},
   Services : {<<>>, <<<<"a">>>>, <<<<"a">>, <<"b">>>>},
   Memory : {<<>>, <<"1","G">>},
   Command : {<<>>},
   PathKind : {"dir", "file", "missing"}]

BuildEnvAlways(buildpack) == (BuildpackUrl :> buildpack)

\* the environment of a new build config: BUILDPACK_URL when a buildpack is given
BuildEnv(buildpack) ==
  IF buildpack # <<>> THEN (BuildpackUrl :> buildpack) ELSE EmptyEnv

PathArgMissingIsFile(kind) ==
  IF kind = "dir" THEN <<"-","-","f","r","o","m","-","d","i","r","=",".">> ELSE <<"-","-","f","r","o","m","-","f","i","l","e","=",".">>

\* the path argument of start-build: kind is what os.Stat finds at Path, a
\* directory, a file, or nothing ("missing", Stat returns an error)
PathArg(kind) ==
  IF kind # "file" THEN <<"-","-","f","r","o","m","-","d","i","r","=",".">> ELSE <<"-","-","f","r","o","m","-","f","i","l","e","=",".">>

\* a derived binding environment as KEY=VALUE entries, in some order
Flatten(derived) ==
  [i \in 1..Cardinality(DOMAIN derived) |->
     LET k == SetToSeq(DOMAIN derived)[i] IN k \o <<Eq>> \o derived[k]]

\* the entries of the services' bindings, service after service
RECURSIVE BindingEntries(_)
BindingEntries(services) ==
  IF services = <<>> THEN {<<>>}
  ELSE LET service == Head(services)
           prefix  == serviceEnvPrefix(service)
       IN  {Flatten(d) \o rest :
              d \in deriveBindingEnv(Env(ServiceEnv(service)), prefix),
              rest \in BindingEntries(Tail(services))}

\* envForServiceBindings when every service environment can be read: the
\* entries, then CF_BOUND_SERVICES when there is a service
envForServiceBindings(services) ==
  IF services = <<>> THEN {<<>>}
  ELSE {e \o <<BoundServices \o <<Eq>> \o
               Join([i \in DOMAIN services |-> serviceEnvPrefix(services[i])], <<" ">>)>> :
          e \in BindingEntries(services)}

\* CF_COMMAND appended before MEMORY_LIMIT
createDeploymentArgsCommandFirst(app, repoAndImage, env) ==
  LET limits == IF app.Memory # <<>> THEN <<"-","-","l","i","m","i","t","s","=","m","e","m","o","r","y","=">> \o app.Memory ELSE <<>>
      env1   == IF app.Command # <<>> THEN Append(env, <<"C","F","_","C","O","M","M","A","N","D","=">> \o app.Command) ELSE env
      env2   == IF app.Memory # <<>> THEN Append(env1, <<"M","E","M","O","R","Y","_","L","I","M","I","T","=">> \o app.Memory) ELSE env1
  IN  <<<<"r","u","n">>, app.Name, <<"-","-","i","m","a","g","e","=">> \o repoAndImage, limits, <<"-","-","e","n","v","=">> \o Join(env2, <<",">>)>>

\* createDeploymentArgs
createDeploymentArgs(app, repoAndImage, env) ==
  LET limits == IF app.Memory # <<>> THEN <<"-","-","l","i","m","i","t","s","=","m","e","m","o","r","y","=">> \o app.Memory ELSE <<>>
      env1   == IF app.Memory # <<>> THEN Append(env, <<"M","E","M","O","R","Y","_","L","I","M","I","T","=">> \o app.Memory) ELSE env
      env2   == IF app.Command # <<>> THEN Append(env1, <<"C","F","_","C","O","M","M","A","N","D","=">> \o app.Command) ELSE env1
  IN  <<<<"r","u","n">>, app.Name, <<"-","-","i","m","a","g","e","=">> \o repoAndImage, limits,
        <<"-","-","e","n","v","=">> \o Join(env2, <<",">>)>>

\* the variables "oc run" stores on the new deployment config: the --env
\* argument split at the commas, each entry at its first "="
PlatformRun(args) ==
  LET joined  == SubSeq(args[5], 7, Len(args[5]))
      entries == IF joined = <<>> THEN <<>> ELSE SplitChar(joined, ",")
      valid   == {i \in DOMAIN entries : Contains(entries[i], <<Eq>>)}
      keyOf(e) == SplitChar(e, Eq)[1]
      valOf(e) == SubSeq(e, Len(keyOf(e)) + 2, Len(e))
  IN  [k \in {keyOf(entries[i]) : i \in valid} |->
         valOf(entries[CHOOSE i \in valid :
                         /\ keyOf(entries[i]) = k
                         /\ \A j \in valid : keyOf(entries[j]) = k => j <= i])]



(***************************************************************************)
(* Push as a state machine: one action per step of the pipeline.  A step   *)
(* appends the commands it issues to the log, each with how it ended.      *)
(***************************************************************************)
PushOrderSwapped ==
  <<"ensureLoggedIn", "displayProject", "startBuild", "ensureBuildExists",
    "ensureDeploymentExists", "ensureServiceExists", "ensureRouteExists", "displayRoute">>

PushOrderNoRoute ==
  <<"ensureLoggedIn", "displayProject", "ensureBuildExists", "startBuild",
    "ensureDeploymentExists", "ensureServiceExists", "displayRoute">>

\* the steps of Push in the order of its body
PushOrder ==
  <<"ensureLoggedIn", "displayProject", "ensureBuildExists", "startBuild",
    "ensureDeploymentExists", "ensureServiceExists", "ensureRouteExists", "displayRoute">>

\* the step that follows, "done" after the last one
After(step) ==
  LET i == CHOOSE j \in DOMAIN PushOrder : PushOrder[j] = step
  IN  IF i = Len(PushOrder) THEN "done" ELSE PushOrder[i + 1]

\* a platform on which an earlier Push of some application ran to its end
Deployed(buildEnv) ==
  [loggedIn |-> TRUE, bc |-> TRUE, bcEnv |-> buildEnv, built |-> TRUE,
   svc |-> TRUE, route |-> TRUE]

\* Push starts on an empty project or on one where the application is deployed
InitPush ==
  /\ last = NoCall
  /\ exOut = <<>>
  /\ exFailed = FALSE
  /\ exRes = NoExists
  /\ ocCall = NoOc
  /\ race = NoRace
  /\ fn = NoFn
  /\ \E loggedIn \in BOOLEAN :
       \/ /\ plat = [NoPlat EXCEPT !.loggedIn = loggedIn]
          /\ dcExists = FALSE
          /\ dcEnv = EmptyEnv
       \/ /\ \E buildpack \in {<<>>, <<"b","p">>, <<"u","=","1">>} :
               plat = [Deployed(BuildEnv(buildpack)) EXCEPT !.loggedIn = loggedIn]
          /\ dcExists = TRUE
          /\ dcEnv = (<<"F","O","O">> :> <<"x">>)
  /\ \E app \in PushApps, allSucceed \in BOOLEAN :
       push = [pc |-> "ensureLoggedIn", app |-> app, allSucceed |-> allSucceed,
               again |-> FALSE, status |-> "running", log |-> <<>>, err |-> "nil"]

\* one command of the log: the step that issued it, its arguments, how it ended
Cmd(step, args, res) == [step |-> step, args |-> args, res |-> res]

\* whether a command the platform can carry out succeeds: always, in a run
\* in which every command succeeds
Ok == IF push.allSucceed THEN {TRUE} ELSE BOOLEAN

\* "ok" or "failed"
Res(ok) == IF ok THEN "ok" ELSE "failed"

\* the outcomes of a get command for an object that is present or not
Gets(present) ==
  IF push.allSucceed
  THEN {g \in OcGet(present) : Exists(g.out, g.failed).err = "nil"}
  ELSE OcGet(present)

\* how a get command ended, as Exists reads it
GetRes(g) ==
  IF Exists(g.out, g.failed).err # "nil" THEN "failed"
  ELSE IF Exists(g.out, g.failed).exists THEN "ok" ELSE "not found"

\* the step is over: the pipeline goes on
Go(step, entries) ==
  push' = [push EXCEPT !.pc = After(step),
                       !.status = IF After(step) = "done" THEN "done" ELSE "running",
                       !.log = @ \o entries]

\* the process goes on with the next step after the error
FatalKeepsGoing(entries) == Go(entries[1].step, entries)

\* the error of a service whose environment cannot be read
BoundServiceNotFound == "bound service not found"

\* the error the process ends with: the one of envForServices when the last
\* command is the listing of a service, otherwise the one of the command
FatalError(entries) ==
  LET e == entries[Len(entries)]
  IN  IF e.step = "ensureDeploymentExists" /\ e.args[1] = <<"e","n","v">>
      THEN BoundServiceNotFound
      ELSE "exit status 1"

\* exitWithError, exitWithOutputAndError: the process ends
Fatal(entries) ==
  push' = [push EXCEPT !.pc = "exited", !.status = "fatal", !.log = @ \o entries,
                       !.err = FatalError(entries)]

NotPush == <<last, exOut, exFailed, exRes, ocCall, race, fn>>



ensureLoggedIn ==
  /\ push.pc = "ensureLoggedIn"
  /\ UNCHANGED <<dcExists, dcEnv>>
  /\ UNCHANGED NotPush
  /\ \E whoamiOk \in (IF plat.loggedIn THEN Ok ELSE {FALSE}) :
       IF LoggedIn(~whoamiOk)
       THEN /\ Go("ensureLoggedIn", <<Cmd("ensureLoggedIn", <<<<"w","h","o","a","m","i">>>>, Res(whoamiOk))>>)
            /\ UNCHANGED plat
       ELSE \E loginOk \in Ok :
              LET entries == <<Cmd("ensureLoggedIn", <<<<"w","h","o","a","m","i">>>>, Res(whoamiOk)),
                               Cmd("ensureLoggedIn", <<<<"l","o","g","i","n">>>>, Res(loginOk))>>
              IN  IF loginOk
                  THEN /\ Go("ensureLoggedIn", entries)
                       /\ plat' = [plat EXCEPT !.loggedIn = TRUE]
                  ELSE /\ Fatal(entries)
                       /\ UNCHANGED plat

displayProject ==
  /\ push.pc = "displayProject"
  /\ UNCHANGED <<dcExists, dcEnv, plat>>
  /\ UNCHANGED NotPush
  /\ \E ok \in Ok :
       LET entries == <<Cmd("displayProject", <<<<"p","r","o","j","e","c","t">>, <<"-","q">>>>, Res(ok))>>
       IN  IF ok THEN Go("displayProject", entries) ELSE Fatal(entries)

\* the build config is absent: NewBuild, whose command may end with an error
\* status after it has created the build config or without having created it
createBuild(get) ==
  \E cmdOk \in Ok, created \in BOOLEAN, slice \in ArgOrders(envToSlice(BuildEnv(push.app.Buildpack))) :
    LET entries == <<get, Cmd("ensureBuildExists", NewBuildArgs(Image, push.app.Name, slice),
                              Res(cmdOk))>>
    IN  /\ cmdOk => created
        /\ IF NewBuild(~cmdOk) = "nil"
           THEN Go("ensureBuildExists", entries)
           ELSE Fatal(entries)
        /\ plat' = IF created
                   THEN [plat EXCEPT !.bc = TRUE,
                                     !.bcEnv = PlatformSetEnv(EmptyEnv, envToSlice(BuildEnv(push.app.Buildpack)))]
                   ELSE plat

\* the build config exists: its environment is read, and written when the
\* BUILDPACK_URL read is not the application's buildpack
updateBuildpack(get) ==
  LET list == Cmd("ensureBuildExists", <<<<"e","n","v">>, <<"b","c">>, push.app.Name, <<"-","-","l","i","s","t">>>>, "ok")
      env  == Env(plat.bcEnv)
      new  == [k \in DOMAIN env \cup {BuildpackUrl} |->
                 IF k = BuildpackUrl THEN push.app.Buildpack ELSE env[k]]
  IN  \/ /\ ~push.allSucceed
         /\ Fatal(<<get, [list EXCEPT !.res = "failed"]>>)
         /\ UNCHANGED plat
      \/ IF Lookup(env, BuildpackUrl) # push.app.Buildpack
         THEN \E ok \in Ok, slice \in ArgOrders(envToSlice(new)) :
                LET entries == <<get, list,
                                 Cmd("ensureBuildExists", SetEnvArgs(<<"b","c">>, push.app.Name, slice),
                                     Res(ok))>>
                IN  IF SetEnvErr(~ok) = "nil"
                    THEN /\ Go("ensureBuildExists", entries)
                         /\ plat' = [plat EXCEPT !.bcEnv = PlatformSetEnv(plat.bcEnv, envToSlice(new))]
                    ELSE /\ Fatal(entries)
                         /\ UNCHANGED plat
         ELSE /\ Go("ensureBuildExists", <<get, list>>)
              /\ UNCHANGED plat

ensureBuildExists ==
  /\ push.pc = "ensureBuildExists"
  /\ UNCHANGED <<dcExists, dcEnv>>
  /\ UNCHANGED NotPush
  /\ \E g \in Gets(plat.bc) :
       LET get == Cmd("ensureBuildExists", <<<<"g","e","t">>, <<"b","c">>, push.app.Name>>, GetRes(g))
       IN  IF GetRes(g) = "failed"
           THEN Fatal(<<get>>) /\ UNCHANGED plat
           ELSE IF GetRes(g) = "not found"
           THEN createBuild(get)
           ELSE updateBuildpack(get)

startBuild ==
  /\ push.pc = "startBuild"
  /\ UNCHANGED <<dcExists, dcEnv>>
  /\ UNCHANGED NotPush
  /\ \E ok \in (IF plat.bc THEN Ok ELSE {FALSE}) :
       LET entries == <<Cmd("startBuild",
                            <<<<"s","t","a","r","t","-","b","u","i","l","d">>, push.app.Name, PathArg(push.app.PathKind), <<"-","-","f","o","l","l","o","w">>>>,
                            Res(ok))>>
       IN  IF ok
           THEN Go("startBuild", entries) /\ plat' = [plat EXCEPT !.built = TRUE]
           ELSE Fatal(entries) /\ UNCHANGED plat



\* every service is read, also after a listing that failed
createDeploymentReadsOn(get) ==
  LET name    == push.app.Name
      query   == Cmd("ensureDeploymentExists",
                     <<<<"g","e","t">>, <<"i","s">>, name, <<"-","o">>, <<"t","e","m","p","l","a","t","e">>, <<"-","-","t","e","m","p","l","a","t","e","=","{","{",".","s","t","a","t","u","s",".","d","o","c","k","e","r","I","m","a","g","e","R","e","p","o","s","i","t","o","r","y","}","}">>>>, "ok")
      listing(service) ==
                 Cmd("ensureDeploymentExists", <<<<"e","n","v">>, <<"d","c">>, service, <<"-","-","l","i","s","t">>>>, "ok")
      reads   == [i \in DOMAIN push.app.Services |-> listing(push.app.Services[i])]
  IN  \/ /\ ~push.allSucceed \/ ~plat.bc
         /\ Fatal(<<get, [query EXCEPT !.res = "failed"]>>)
         /\ UNCHANGED <<dcExists, dcEnv>>
      \/ /\ ~push.allSucceed
         /\ plat.bc
         /\ \E n \in DOMAIN reads :
              Fatal(<<get, query>> \o [reads EXCEPT ![n].res = "failed"])
         /\ UNCHANGED <<dcExists, dcEnv>>
      \/ /\ plat.bc
         /\ \E env \in envForServiceBindings(push.app.Services), ok \in Ok :
              LET args    == createDeploymentArgs(push.app, <<"r","e","p","o","/","f","o","o">>, env)
                  entries == <<get, query>> \o reads \o
                             <<Cmd("ensureDeploymentExists", args, Res(ok))>>
              IN  IF ok
                  THEN /\ Go("ensureDeploymentExists", entries)
                       /\ dcExists' = TRUE
                       /\ dcEnv' = PlatformRun(args)
                  ELSE /\ Fatal(entries)
                       /\ UNCHANGED <<dcExists, dcEnv>>

\* the deployment config is absent: the image stream is queried, the services'
\* environments are read in list order, the deployment config is created
createDeployment(get) ==
  LET name    == push.app.Name
      query   == Cmd("ensureDeploymentExists",
                     <<<<"g","e","t">>, <<"i","s">>, name, <<"-","o">>, <<"t","e","m","p","l","a","t","e">>, <<"-","-","t","e","m","p","l","a","t","e","=","{","{",".","s","t","a","t","u","s",".","d","o","c","k","e","r","I","m","a","g","e","R","e","p","o","s","i","t","o","r","y","}","}">>>>, "ok")
      listing(service) ==
                 Cmd("ensureDeploymentExists", <<<<"e","n","v">>, <<"d","c">>, service, <<"-","-","l","i","s","t">>>>, "ok")
      reads   == [i \in DOMAIN push.app.Services |-> listing(push.app.Services[i])]
  IN  \/ /\ ~push.allSucceed \/ ~plat.bc
         /\ Fatal(<<get, [query EXCEPT !.res = "failed"]>>)
         /\ UNCHANGED <<dcExists, dcEnv>>
      \/ /\ ~push.allSucceed
         /\ plat.bc
         /\ \E n \in DOMAIN reads :
              Fatal(<<get, query>> \o SubSeq(reads, 1, n - 1) \o <<[reads[n] EXCEPT !.res = "failed"]>>)
         /\ UNCHANGED <<dcExists, dcEnv>>
      \/ /\ plat.bc
         /\ \E env \in envForServiceBindings(push.app.Services), ok \in Ok :
              LET args    == createDeploymentArgs(push.app, <<"r","e","p","o","/","f","o","o">>, env)
                  entries == <<get, query>> \o reads \o
                             <<Cmd("ensureDeploymentExists", args, Res(ok))>>
              IN  IF ok
                  THEN /\ Go("ensureDeploymentExists", entries)
                       /\ dcExists' = TRUE
                       /\ dcEnv' = PlatformRun(args)
                  ELSE /\ Fatal(entries)
                       /\ UNCHANGED <<dcExists, dcEnv>>

\* the command of the redeploy
DeployArgs == <<<<"d","e","p","l","o","y">>, push.app.Name, <<"-","-","l","a","t","e","s","t">>>>

redeployNotFatal(get) ==
  \E ok \in Ok :
    /\ Go("ensureDeploymentExists", <<get, Cmd("ensureDeploymentExists", DeployArgs, Res(ok))>>)
    /\ UNCHANGED <<dcExists, dcEnv>>

redeployWithEnv(get) ==
  \E ok \in Ok :
    LET entries == <<get, Cmd("ensureDeploymentExists", DeployArgs, Res(ok))>>
    IN  /\ IF ok THEN Go("ensureDeploymentExists", entries) ELSE Fatal(entries)
        /\ UNCHANGED dcExists
        /\ dcEnv' = IF ok /\ push.app.Memory # <<>>
                    THEN PlatformSetEnv(dcEnv, {<<"M","E","M","O","R","Y","_","L","I","M","I","T","=">> \o push.app.Memory})
                    ELSE dcEnv

\* the deployment config exists: the latest image is deployed again
redeploy(get) ==
  \E ok \in Ok :
    LET entries == <<get, Cmd("ensureDeploymentExists", DeployArgs, Res(ok))>>
    IN  /\ IF ok THEN Go("ensureDeploymentExists", entries) ELSE Fatal(entries)
        /\ UNCHANGED <<dcExists, dcEnv>>

ensureDeploymentExists ==
  /\ push.pc = "ensureDeploymentExists"
  /\ UNCHANGED plat
  /\ UNCHANGED NotPush
  /\ \E g \in Gets(dcExists) :
       LET get == Cmd("ensureDeploymentExists", <<<<"g","e","t">>, <<"d","c">>, push.app.Name>>, GetRes(g))
       IN  IF GetRes(g) = "failed"
           THEN Fatal(<<get>>) /\ UNCHANGED <<dcExists, dcEnv>>
           ELSE IF GetRes(g) = "not found"
           THEN createDeployment(get)
           ELSE redeploy(get)

ensureServiceExists ==
  /\ push.pc = "ensureServiceExists"
  /\ UNCHANGED <<dcExists, dcEnv>>
  /\ UNCHANGED NotPush
  /\ \E g \in Gets(plat.svc) :
       LET get == Cmd("ensureServiceExists", <<<<"g","e","t">>, <<"s","v","c">>, push.app.Name>>, GetRes(g))
       IN  IF GetRes(g) = "failed"
           THEN Fatal(<<get>>) /\ UNCHANGED plat
           ELSE IF GetRes(g) = "not found"
           THEN \E ok \in (IF dcExists THEN Ok ELSE {FALSE}) :
                  LET entries == <<get, Cmd("ensureServiceExists",
                                            <<<<"e","x","p","o","s","e">>, <<"d","c">>, push.app.Name, <<"-","-","p","o","r","t","=","8","0","8","0">>>>, Res(ok))>>
                  IN  IF ok
                      THEN Go("ensureServiceExists", entries) /\ plat' = [plat EXCEPT !.svc = TRUE]
                      ELSE Fatal(entries) /\ UNCHANGED plat
           ELSE Go("ensureServiceExists", <<get>>) /\ UNCHANGED plat

ensureRouteExists ==
  /\ push.pc = "ensureRouteExists"
  /\ UNCHANGED <<dcExists, dcEnv>>
  /\ UNCHANGED NotPush
  /\ \E g \in Gets(plat.route) :
       LET get == Cmd("ensureRouteExists", <<<<"g","e","t">>, <<"r","o","u","t","e">>, push.app.Name>>, GetRes(g))
       IN  IF GetRes(g) = "failed"
           THEN Fatal(<<get>>) /\ UNCHANGED plat
           ELSE IF GetRes(g) = "not found"
           THEN \E ok \in (IF plat.svc THEN Ok ELSE {FALSE}) :
                  LET entries == <<get, Cmd("ensureRouteExists",
                                            <<<<"e","x","p","o","s","e">>, <<"s","v","c">>, push.app.Name>>, Res(ok))>>
                  IN  IF ok
                      THEN Go("ensureRouteExists", entries) /\ plat' = [plat EXCEPT !.route = TRUE]
                      ELSE Fatal(entries) /\ UNCHANGED plat
           ELSE Go("ensureRouteExists", <<get>>) /\ UNCHANGED plat

displayRoute ==
  /\ push.pc = "displayRoute"
  /\ UNCHANGED <<dcExists, dcEnv, plat>>
  /\ UNCHANGED NotPush
  /\ \E ok \in (IF plat.route THEN Ok ELSE {FALSE}) :
       LET entries == <<Cmd("displayRoute",
                            <<<<"g","e","t">>, <<"r","o","u","t","e">>, push.app.Name, <<"-","o">>, <<"t","e","m","p","l","a","t","e">>, <<"-","-","t","e","m","p","l","a","t","e","=","{","{",".","s","p","e","c",".","h","o","s","t","}","}">>>>,
                            Res(ok))>>
       IN  IF ok THEN Go("displayRoute", entries) ELSE Fatal(entries)

\* the user ends the process between two steps
Terminate ==
  /\ push.pc \notin {"idle", "done", "exited"}
  /\ ~push.allSucceed
  /\ push' = [push EXCEPT !.pc = "exited", !.status = "killed"]
  /\ UNCHANGED <<dcExists, dcEnv, plat>>
  /\ UNCHANGED NotPush

\* the same application is pushed again after a Push that did not reach its end
PushAgain ==
  /\ push.pc = "exited"
  /\ \E allSucceed \in BOOLEAN :
       push' = [push EXCEPT !.pc = "ensureLoggedIn", !.status = "running",
                            !.again = TRUE, !.allSucceed = allSucceed, !.log = <<>>,
                            !.err = "nil"]
  /\ UNCHANGED <<dcExists, dcEnv, plat>>
  /\ UNCHANGED NotPush

NextPush ==
  \/ ensureLoggedIn
  \/ displayProject
  \/ ensureBuildExists
  \/ startBuild
  \/ ensureDeploymentExists
  \/ ensureServiceExists
  \/ ensureRouteExists
  \/ displayRoute
  \/ Terminate
  \/ PushAgain

SpecPush == InitPush /\ [][NextPush]_vars



(***************************************************************************)
(* Properties of Push.                                                     *)
(***************************************************************************)
\* the first argument of a command of the log
Verb(entry) == entry.args[1]

\* the step a command belongs to, told from its arguments: 1 login check,
\* 2 project display, 3 build config, 4 start build, 5 deployment config,
\* 6 service, 7 route, 8 route display
StepOfCommand(args) ==
  CASE args[1] \in {<<"w","h","o","a","m","i">>, <<"l","o","g","i","n">>} -> 1
    [] args[1] = <<"p","r","o","j","e","c","t">> -> 2
    [] args[1] = <<"n","e","w","-","b","u","i","l","d">> -> 3
    [] args[1] \in {<<"g","e","t">>, <<"e","n","v">>} /\ args[2] = <<"b","c">> -> 3
    [] args[1] = <<"s","t","a","r","t","-","b","u","i","l","d">> -> 4
    [] args[1] \in {<<"r","u","n">>, <<"d","e","p","l","o","y">>} -> 5
    [] args[1] = <<"g","e","t">> /\ args[2] \in {<<"d","c">>, <<"i","s">>} -> 5
    [] args[1] = <<"e","n","v">> /\ args[2] = <<"d","c">> -> 5
    [] args[1] = <<"g","e","t">> /\ args[2] = <<"s","v","c">> -> 6
    [] args[1] = <<"e","x","p","o","s","e">> /\ args[2] = <<"d","c">> -> 6
    [] args[1] = <<"g","e","t">> /\ args[2] = <<"r","o","u","t","e">> /\ Len(args) = 3 -> 7
    [] args[1] = <<"e","x","p","o","s","e">> /\ args[2] = <<"s","v","c">> -> 7
    [] args[1] = <<"g","e","t">> /\ args[2] = <<"r","o","u","t","e">> /\ Len(args) > 3 -> 8

\* a failure that ends the process: every failed command but the login check,
\* which leads to the login, and the build creation, whose failure is dropped
FatalFailure(entry) ==
  entry.res = "failed" /\ Verb(entry) \notin {<<"w","h","o","a","m","i">>, <<"n","e","w","-","b","u","i","l","d">>}

\* C12: the commands of a Push run are issued step after step in the order
\* login check, project display, build config, start build, deployment config,
\* service, route, route display, with no step left out; no command that did
\* not succeed is issued again; a fatal failure is the last command of the run
C12_FixedOrderNoRetry ==
  LET log == push.log
  IN  push.pc # "idle" =>
        /\ \A i, j \in DOMAIN log :
             i < j => StepOfCommand(log[i].args) <= StepOfCommand(log[j].args)
        /\ \A i \in DOMAIN log : \A n \in 1..(StepOfCommand(log[i].args) - 1) :
             \E j \in 1..i : StepOfCommand(log[j].args) = n
        /\ \A i, j \in DOMAIN log :
             i < j /\ log[i].res # "ok" => log[j].args # log[i].args
        /\ \A i \in DOMAIN log :
             FatalFailure(log[i]) => i = Len(log) /\ push.pc = "exited"
        /\ push.status = "fatal" => log # <<>> /\ FatalFailure(log[Len(log)])

\* start-build failed after the login check, the project display and the build
\* creation, and the process has exited
C12_Witness ==
  /\ push.status = "fatal"
  /\ Len(push.log) = 5
  /\ [i \in 1..5 |-> Verb(push.log[i])] = <<<<"w","h","o","a","m","i">>, <<"p","r","o","j","e","c","t">>, <<"g","e","t">>, <<"n","e","w","-","b","u","i","l","d">>, <<"s","t","a","r","t","-","b","u","i","l","d">>>>
  /\ push.log[5].res = "failed"



\* the four objects of the application exist
AllExist == plat.bc /\ dcExists /\ plat.svc /\ plat.route

\* the number of the step a run stands at, 9 at its end
StepOfPc(pc) ==
  CASE pc = "ensureLoggedIn" -> 1
    [] pc = "displayProject" -> 2
    [] pc = "ensureBuildExists" -> 3
    [] pc = "startBuild" -> 4
    [] pc = "ensureDeploymentExists" -> 5
    [] pc = "ensureServiceExists" -> 6
    [] pc = "ensureRouteExists" -> 7
    [] pc = "displayRoute" -> 8
    [] pc = "done" -> 9

\* C13: a Push of the same application that follows a Push that was ended or
\* exited after any step, and in which every command succeeds, runs to its end:
\* it never exits, it has issued the commands of exactly the steps before the
\* one it stands at, and at its end the build config, the deployment config,
\* the service and the route all exist
C13_RerunConverges ==
  push.pc # "idle" /\ push.again /\ push.allSucceed =>
    /\ push.pc # "exited"
    /\ {StepOfCommand(push.log[i].args) : i \in DOMAIN push.log} = 1..(StepOfPc(push.pc) - 1)
    /\ push.pc = "done" => AllExist

\* the earlier Push left no service and no route; the later one created both
\* and reached its end
C13_Witness ==
  /\ push.pc = "done"
  /\ push.again
  /\ push.allSucceed
  /\ AllExist
  /\ \E i, j \in DOMAIN push.log :
       /\ Verb(push.log[i]) = <<"e","x","p","o","s","e">> /\ push.log[i].args[2] = <<"d","c">>
       /\ Verb(push.log[j]) = <<"e","x","p","o","s","e">> /\ push.log[j].args[2] = <<"s","v","c">>
  /\ \E i \in DOMAIN push.log : Verb(push.log[i]) = <<"d","e","p","l","o","y">>

\* C14: whatever way the build-creation command ends, the next command of the
\* run is start-build: NewBuild reports success and the step is not fatal
C14_NewBuildNeverFatal ==
  \A i \in DOMAIN push.log :
    Verb(push.log[i]) = <<"n","e","w","-","b","u","i","l","d">> =>
      IF i < Len(push.log)
      THEN Verb(push.log[i + 1]) = <<"s","t","a","r","t","-","b","u","i","l","d">>
      ELSE push.status # "fatal" /\ push.pc \in {"startBuild", "exited"}

\* new-build ended with an error status and start-build was issued after it
C14_Witness ==
  \E i \in DOMAIN push.log :
    /\ Verb(push.log[i]) = <<"n","e","w","-","b","u","i","l","d">>
    /\ push.log[i].res = "failed"
    /\ i < Len(push.log)
    /\ Verb(push.log[i + 1]) = <<"s","t","a","r","t","-","b","u","i","l","d">>

\* the commands of the log that ensureBuildExists issued
BuildCommands == {i \in DOMAIN push.log : StepOfCommand(push.log[i].args) = 3}

\* C15: when the build config is reported absent, ensureBuildExists issues
\* exactly one build creation, for the image and the application's name, with
\* BUILDPACK_URL=<Buildpack> as its only environment entry when a buildpack is
\* given and no entry otherwise, and neither reads nor writes an environment
C15_AbsentBuildIsCreatedOnce ==
  \A i \in DOMAIN push.log :
    push.log[i].args = <<<<"g","e","t">>, <<"b","c">>, push.app.Name>> /\ push.log[i].res = "not found" =>
      /\ BuildCommands = {i, i + 1}
      /\ push.log[i + 1].args =
           <<<<"n","e","w","-","b","u","i","l","d">>, Image, <<"-","-","b","i","n","a","r","y","=","t","r","u","e">>, <<"-","-","n","a","m","e","=">> \o push.app.Name>> \o
           (IF push.app.Buildpack # <<>>
            THEN <<<<"B","U","I","L","D","P","A","C","K","_","U","R","L","=">> \o push.app.Buildpack>> ELSE <<>>)

\* a build config was created for an application with the buildpack bp
C15_Witness ==
  /\ push.app.Buildpack = <<"b","p">>
  /\ \E i \in DOMAIN push.log :
       /\ push.log[i].args = <<<<"g","e","t">>, <<"b","c">>, <<"f","o","o">>>>
       /\ push.log[i].res = "not found"
       /\ push.log[i + 1].args =
            <<<<"n","e","w","-","b","u","i","l","d">>, <<"m","y","-","i","m","a","g","e">>, <<"-","-","b","i","n","a","r","y","=","t","r","u","e">>, <<"-","-","n","a","m","e","=","f","o","o">>, <<"B","U","I","L","D","P","A","C","K","_","U","R","L","=","b","p">>>>

\* the commands a step appended to the log
Issued == SubSeq(push'.log, Len(push.log) + 1, Len(push'.log))

\* C16: when the build config is reported present and its environment can be
\* read, ensureBuildExists issues a write exactly when the BUILDPACK_URL stored
\* on the build config is not the application's Buildpack, the write carries
\* BUILDPACK_URL=<Buildpack>, and no build creation is issued
C16_WriteIffBuildpackDiffers ==
  [][(/\ push.pc = "ensureBuildExists"
      /\ Len(Issued) >= 2
      /\ Issued[1].res = "ok"
      /\ Issued[2].res = "ok")
     => /\ Issued[2].args = <<<<"e","n","v">>, <<"b","c">>, push.app.Name, <<"-","-","l","i","s","t">>>>
        /\ Len(Issued) = 3 <=> Lookup(plat.bcEnv, BuildpackUrl) # push.app.Buildpack
        /\ Len(Issued) = 3 =>
             /\ SubSeq(Issued[3].args, 1, 3) = <<<<"e","n","v">>, <<"b","c">>, push.app.Name>>
             /\ \E n \in 4..Len(Issued[3].args) :
                  Issued[3].args[n] = <<"B","U","I","L","D","P","A","C","K","_","U","R","L","=">> \o push.app.Buildpack
        /\ \A n \in DOMAIN Issued : Verb(Issued[n]) # <<"n","e","w","-","b","u","i","l","d">>]_vars



(***************************************************************************)
(* pkg/app: the service-binding environment computed at deployment         *)
(* creation, as one function call.  envForServices is the function of      *)
(* app.go, which scans the lines of each listing; envForServiceBindings    *)
(* goes through Env and deriveBindingEnv.                                  *)
(***************************************************************************)
\* longest Services list of an application
MaxServices == 2

\* the sequences over S of length at most n
SeqsUpTo(S, n) == UNION {[1..k -> S] : k \in 0..n}

\* the services an application can name: those of the project, one of them
\* with two keys of the same suffix
NamedServices == Services \cup {<<"c">>}

ServiceLists == SeqsUpTo(NamedServices, MaxServices)

\* addServiceEnv: the entry has what stands between the first "=" of the
\* line and the next one
addServiceEnv(prefix, suffix, line) ==
  prefix \o suffix \o <<Eq>> \o SplitChar(line, Eq)[2]

\* the second switch of the scan: the entry a line adds, if any
CredentialEntry(prefix, line) ==
  IF Contains(line, SufUser \o <<Eq>>) THEN <<addServiceEnv(prefix, SufUser, line)>>
  ELSE IF Contains(line, SufPassword \o <<Eq>>) THEN <<addServiceEnv(prefix, SufPassword, line)>>
  ELSE IF Contains(line, SufDatabase \o <<Eq>>) THEN <<addServiceEnv(prefix, SufDatabase, line)>>
  ELSE <<>>

RECURSIVE CredentialEntries(_, _)
CredentialEntries(prefix, lines) ==
  IF lines = <<>> THEN <<>>
  ELSE CredentialEntry(prefix, Head(lines)) \o CredentialEntries(prefix, Tail(lines))

\* the first switch of the scan: the label of the last line of a family
LabelOfLines(lines) ==
  LET family == {i \in DOMAIN lines : LabelOfKey(lines[i]) # <<>>}
  IN  IF family = {} THEN <<>>
      ELSE LabelOfKey(lines[CHOOSE i \in family : \A j \in family : j <= i])

\* the body of the loop over Services, for services whose listing succeeds
RECURSIVE ServicesEntries(_)
ServicesEntries(services) ==
  IF services = <<>> THEN <<>>
  ELSE LET envPrefix == serviceEnvPrefix(Head(services))
           lines     == EnvListing(ServiceEnv(Head(services)))
       IN  CredentialEntries(envPrefix, lines)
           \o <<envPrefix \o SufLabel \o <<Eq>> \o LabelOfLines(lines)>>
           \o ServicesEntries(Tail(services))

\* the prefixes of the services, in list order
serviceNames(services) == [i \in DOMAIN services |-> serviceEnvPrefix(services[i])]

BoundServicesEntryDeduplicated(services) ==
  BoundServices \o <<Eq>> \o
  Join(SetToSeq(Range(serviceNames(services))), <<" ">>)

\* the entry appended after the loop
BoundServicesEntry(services) ==
  BoundServices \o <<Eq>> \o Join(serviceNames(services), <<" ">>)

\* envForServices when every listing succeeds
envForServices(services) ==
  IF Len(services) > 0
  THEN ServicesEntries(services) \o <<BoundServicesEntry(services)>>
  ELSE <<>>

\* one call of the computation on a Services list; failing = 0 when every
\* listing succeeds, otherwise the position of the first that fails
FnBindings(op, services, failing, env) ==
  [op |-> op, services |-> services,
   reads |-> IF failing = 0 THEN services ELSE SubSeq(services, 1, failing),
   err |-> IF failing = 0 THEN "nil" ELSE BoundServiceNotFound,
   env |-> env]

EnvForServicesCall ==
  /\ fn.op = "none"
  /\ \E services \in ServiceLists, failing \in 0..MaxServices :
       /\ failing <= Len(services)
       /\ fn' = FnBindings("envForServices", services, failing,
                           IF failing = 0 THEN envForServices(services)
                           ELSE ServicesEntries(SubSeq(services, 1, failing - 1)))
  /\ UNCHANGED <<dcExists, dcEnv, last, exOut, exFailed, exRes, ocCall, race, plat, push>>

EnvForServiceBindingsCall ==
  /\ fn.op = "none"
  /\ \E services \in ServiceLists, failing \in 0..MaxServices :
       /\ failing <= Len(services)
       /\ IF failing = 0
          THEN \E env \in envForServiceBindings(services) :
                 fn' = FnBindings("envForServiceBindings", services, 0, env)
          ELSE fn' = FnBindings("envForServiceBindings", services, failing, <<>>)
  /\ UNCHANGED <<dcExists, dcEnv, last, exOut, exFailed, exRes, ocCall, race, plat, push>>

\* deriveBindingEnv applied twice to the environment Env reads from a service
DeriveTwiceCall ==
  /\ fn.op = "none"
  /\ \E service \in NamedServices :
       LET source == Env(ServiceEnv(service))
           prefix == serviceEnvPrefix(service)
       IN  \E first \in deriveBindingEnv(source, prefix),
              second \in deriveBindingEnv(source, prefix) :
             fn' = [op |-> "deriveBindingEnv", service |-> service, source |-> source,
                    first |-> first, second |-> second]
  /\ UNCHANGED <<dcExists, dcEnv, last, exOut, exFailed, exRes, ocCall, race, plat, push>>

InitBindings ==
  /\ dcExists = FALSE
  /\ dcEnv = EmptyEnv
  /\ last = NoCall
  /\ exOut = <<>>
  /\ exFailed = FALSE
  /\ exRes = NoExists
  /\ ocCall = NoOc
  /\ race = NoRace
  /\ plat = NoPlat
  /\ push = NoPush
  /\ fn = NoFn

NextBindings ==
  \/ EnvForServicesCall
  \/ EnvForServiceBindingsCall
  \/ DeriveTwiceCall

SpecBindings == InitBindings /\ [][NextBindings]_vars



(***************************************************************************)
(* Claims on the service-binding environment of a new deployment.          *)
(***************************************************************************)
\* a call of the computation, in either form, that returned no error
BindingsComputed ==
  fn.op \in {"envForServices", "envForServiceBindings"} /\ fn.err = "nil"

\* the entries of env that set CF_BOUND_SERVICES
BoundEntries(env) == {i \in DOMAIN env : HasPrefix(env[i], BoundServices \o <<Eq>>)}

\* the value of an entry KEY=VALUE
EntryValue(entry) == SubSeq(entry, Len(SplitChar(entry, Eq)[1]) + 2, Len(entry))

\* C21: when every service environment of Services can be read, the computed
\* entries end with exactly one CF_BOUND_SERVICES entry, whose value is the
\* prefixes of Services in list order joined by single spaces; for an empty
\* Services list there is no entry at all.
C21_OneFinalBoundServicesEntry ==
  BindingsComputed =>
    IF fn.services = <<>> THEN fn.env = <<>>
    ELSE /\ BoundEntries(fn.env) = {Len(fn.env)}
         /\ EntryValue(fn.env[Len(fn.env)]) =
              Join([i \in DOMAIN fn.services |->
                      ToUpper(ReplaceAll(fn.services[i], <<"-">>, <<"_">>))], <<" ">>)

\* C21 witness: the computation ran on two different services, one of them
\* with a "-" in its name
C21_Witness ==
  /\ BindingsComputed
  /\ fn.op = "envForServices"
  /\ fn.services = <<<<"a","-","b">>, <<"a">>>>
  /\ fn.env[Len(fn.env)] = <<"C","F","_","B","O","U","N","D","_","S","E","R","V","I","C","E","S","=","A","_","B"," ","A">>

\* C22: for each service of Services and each key of its environment ending
\* in _USER, _PASSWORD or _DATABASE, the computed entries have PREFIX_USER,
\* PREFIX_PASSWORD or PREFIX_DATABASE with that key's value, whatever family
\* the key belongs to.
C22_CredentialsCopied ==
  BindingsComputed =>
    \A i \in DOMAIN fn.services :
      LET stored == ServiceEnv(fn.services[i])
          prefix == serviceEnvPrefix(fn.services[i])
      IN  \A k \in DOMAIN stored : \A suffix \in {SufUser, SufPassword, SufDatabase} :
            HasSuffix(k, suffix) =>
              (prefix \o suffix \o <<Eq>> \o stored[k]) \in Range(fn.env)

\* C23: deriving the binding environment twice from the same source gives
\* the same result, also for a source with keys of two recognised families.
C23_DeriveDeterministic ==
  fn.op = "deriveBindingEnv" => fn.first = fn.second

\* C28: the CF_BOUND_SERVICES value computed at deployment creation has no
\* prefix token twice, for every Services list.
C28_NoDuplicateAtCreation ==
  (BindingsComputed /\ fn.services # <<>>) =>
    NoDuplicates(Fields(EntryValue(fn.env[Len(fn.env)])))



(***************************************************************************)
(* pkg/app: createDeploymentArgs as one function call, on applications     *)
(* with and without a memory limit and a start command and on entry lists  *)
(* as the binding computation hands them over.                             *)
(***************************************************************************)
\* most entries the caller of createDeploymentArgs passes in
MaxEnvEntries == 2

CallerEntries == {<<"A","_","U","S","E","R","=","u">>, <<"A","_","L","A","B","E","L","=","m","y","s","q","l">>, <<"C","F","_","B","O","U","N","D","_","S","E","R","V","I","C","E","S","=","A">>}

ArgsApps ==
  [Name : {AppName},
   Memory : {<<>>, <<"1","G">>, <<"2","5","6","M">>},
   Command : {<<>>, <<"c">>, <<"f","o","o","b","a","r"," ","b","a","z">>}]

RepoAndImage == <<"r","e","p","o","/","f","o","o">>

CreateDeploymentArgsCall ==
  /\ fn.op = "none"
  /\ \E app \in ArgsApps, env \in SeqsUpTo(CallerEntries, MaxEnvEntries) :
       fn' = [op |-> "createDeploymentArgs", app |-> app, env |-> env,
              args |-> createDeploymentArgs(app, RepoAndImage, env)]
  /\ UNCHANGED <<dcExists, dcEnv, last, exOut, exFailed, exRes, ocCall, race, plat, push>>

NextArgs == CreateDeploymentArgsCall

SpecArgs == InitBindings /\ [][NextArgs]_vars

\* the arguments of a call that start with p
ArgsWith(p) == {i \in DOMAIN fn.args : HasPrefix(fn.args[i], p)}

\* the entries of the --env argument of a call, <<>> for an empty value
EnvArgEntries ==
  LET arg   == fn.args[CHOOSE i \in ArgsWith(<<"-","-","e","n","v","=">>) : TRUE]
      value == SubSeq(arg, 7, Len(arg))
  IN  IF value = <<>> THEN <<>> ELSE SplitChar(value, ",")

\* C24: the arguments have --limits=memory=<Memory> and the entry
\* MEMORY_LIMIT=<Memory> exactly when Memory is not empty, the entry
\* CF_COMMAND=<Command> exactly when Command is not empty; there is one --env
\* argument, with the caller's entries first, then MEMORY_LIMIT, then
\* CF_COMMAND, joined by commas.
C24_DeploymentArgs ==
  fn.op = "createDeploymentArgs" =>
    LET memory   == fn.app.Memory
        command  == fn.app.Command
        limit    == <<"-","-","l","i","m","i","t","s","=","m","e","m","o","r","y","=">> \o memory
        memEntry == <<"M","E","M","O","R","Y","_","L","I","M","I","T","=">> \o memory
        cmdEntry == <<"C","F","_","C","O","M","M","A","N","D","=">> \o command
        entries  == EnvArgEntries
    IN  /\ Cardinality(ArgsWith(<<"-","-","e","n","v","=">>)) = 1
        /\ (memory # <<>>) <=> (limit \in Range(fn.args))
        /\ (memory = <<>>) => ArgsWith(<<"-","-","l","i","m","i","t","s">>) = {}
        /\ (memory # <<>>) <=> (\E i \in DOMAIN entries : HasPrefix(entries[i], <<"M","E","M","O","R","Y","_","L","I","M","I","T","=">>))
        /\ (command # <<>>) <=> (\E i \in DOMAIN entries : HasPrefix(entries[i], <<"C","F","_","C","O","M","M","A","N","D","=">>))
        /\ entries = fn.env \o (IF memory # <<>> THEN <<memEntry>> ELSE <<>>)
                            \o (IF command # <<>> THEN <<cmdEntry>> ELSE <<>>)

\* C24 witness: a call with a memory limit, a command and two caller entries
C24_Witness ==
  /\ fn.op = "createDeploymentArgs"
  /\ fn.app.Memory = <<"1","G">>
  /\ fn.app.Command = <<"f","o","o","b","a","r"," ","b","a","z">>
  /\ fn.env = <<<<"A","_","U","S","E","R","=","u">>, <<"C","F","_","B","O","U","N","D","_","S","E","R","V","I","C","E","S","=","A">>>>
  /\ fn.args[5] = <<"-","-","e","n","v","=","A","_","U","S","E","R","=","u",",","C","F","_","B","O","U","N","D","_","S","E","R","V","I","C","E","S","=","A",",","M","E","M","O","R","Y","_","L","I","M","I","T","=","1","G",",","C","F","_","C","O","M","M","A","N","D","=","f","o","o","b","a","r"," ","b","a","z">>



(***************************************************************************)
(* Further claims on BindService and UnbindService.                        *)
(***************************************************************************)
\* C25: BindService on an application whose deployment config does not exist
\* returns "application not found" without reading an environment and
\* without a write; UnbindService likewise returns an error and writes
\* nothing.  (When the get command fails for another reason the error is the
\* one of the existence check; nothing is read or written then either.)
C25_AbsentApplication ==
  (last.op \in {"bind", "unbind"} /\ ~dcExists) =>
    /\ last.err # "nil"
    /\ ~last.read
    /\ last.writes = <<>>
    /\ dcEnv = last.before
    /\ Contains(exOut, NotFound) => last.err = "application not found"

\* C25 witness: a BindService call on an absent deployment config whose get
\* command answered "not found"
C25_Witness ==
  /\ last.op = "bind"
  /\ ~dcExists
  /\ Contains(exOut, NotFound)
  /\ last.err = "application not found"

\* C25 witness, UnbindService
C25_WitnessUnbind ==
  /\ last.op = "unbind"
  /\ ~dcExists
  /\ Contains(exOut, NotFound)
  /\ last.err = "application not found"

\* C29: a successful UnbindService(s) changes only the binding of s: every
\* other prefix that was a token of CF_BOUND_SERVICES before the call is a
\* token after it, and no binding key of another bound service is set to the
\* deletion marker.
C29_UnbindTouchesOnlyItsService ==
  (last.op = "unbind" /\ last.err = "nil") =>
    LET others == Tokens(LastBound) \ {LastPrefix}
        delta  == last.writes[1]
    IN  /\ others \subseteq Tokens(Lookup(dcEnv, BoundServices))
        /\ \A p \in others : \A k \in BindingKeys(p) :
             k \in DOMAIN delta => delta[k] # DeletionMarker



(***************************************************************************)
(* cmd: the push, bind-service and unbind-service commands, from the       *)
(* command line to the exit status of the process.  A command is one       *)
(* action: the cobra Run function, the Run method of its configuration,    *)
(* and for push the merge of manifest and flags and the Push of every      *)
(* merged application.                                                     *)
(***************************************************************************)
\* most entries of a manifest
MaxManifest == 2

\* the applications of a manifest: with and without a name
ManifestEntries ==
  [Name : {<<>>, AppName, <<"b","a","r">>}, Memory : {<<>>, <<"1","G">>}]

Manifests == SeqsUpTo(ManifestEntries, MaxManifest)

\* the name argument of push: none, one of the manifest, one that is not
PushNames == {<<>>, AppName, <<"b","a","z">>}

\* the --memory flag: not given, well formed, malformed
MemoryFlags == {<<>>, <<"2","G">>, <<"x">>}

Digits == {"0", "1", "2", "3", "4", "5", "6", "7", "8", "9"}

\* strings.TrimSuffix
TrimSuffix(s, suffix) ==
  IF HasSuffix(s, suffix) THEN SubSeq(s, 1, Len(s) - Len(suffix)) ELSE s

\* regexp "^\d+[EPTGMK]?$"
MemoryMatches(mem) ==
  LET digits(s) == Len(s) >= 1 /\ \A i \in DOMAIN s : s[i] \in Digits
  IN  \/ digits(mem)
      \/ /\ Len(mem) >= 2
         /\ mem[Len(mem)] \in {"E", "P", "T", "G", "M", "K"}
         /\ digits(SubSeq(mem, 1, Len(mem) - 1))

\* getFlagsApp: the application of the command line
getFlagsApp(args, memoryFlag) ==
  LET name == IF Len(args) > 0 THEN args[1] ELSE <<>>
      mem  == TrimSuffix(ToUpper(memoryFlag), <<"B">>)
  IN  IF memoryFlag = <<>> THEN [app |-> [Name |-> name, Memory |-> <<>>], err |-> "nil"]
      ELSE IF ~MemoryMatches(mem)
      THEN [app |-> [Name |-> name, Memory |-> <<>>], err |-> "Memory string must be in the format"]
      ELSE [app |-> [Name |-> name, Memory |-> mem], err |-> "nil"]

\* mergo.MergeWithOverwrite: the non-empty fields of src replace those of dst
MergeWithOverwrite(dst, src) ==
  [f \in DOMAIN dst |-> IF src[f] # <<>> THEN src[f] ELSE dst[f]]

\* addApp: an application without a name is refused, another one appended
addApp(apps, app) ==
  IF app.Name = <<>> THEN [apps |-> apps, err |-> "App name is a required field"]
  ELSE [apps |-> Append(apps, app), err |-> "nil"]

\* a loop "err = addApp(&apps, entry)" over entries: err is assigned in
\* every round
RECURSIVE AddEach(_, _, _)
AddEach(apps, err, entries) ==
  IF entries = <<>> THEN [apps |-> apps, err |-> err]
  ELSE LET r == addApp(apps, Head(entries))
       IN  AddEach(r.apps, r.err, Tail(entries))

\* the entries of seq with the name
Named(seq, name) ==
  LET Test(a) == a.Name = name IN SelectSeq(seq, Test)

\* mergeAppsFromManifestAndFlags
mergeAppsFromManifestAndFlags(manifestApps, flagsApp) ==
  LET r == CASE Len(manifestApps) = 0 ->
                  IF flagsApp.Name = <<>>
                  THEN [apps |-> <<>>, err |-> "Manifest file is not found"]
                  ELSE addApp(<<>>, flagsApp)
             [] Len(manifestApps) = 1 ->
                  addApp(<<>>, MergeWithOverwrite(manifestApps[1], flagsApp))
             [] OTHER ->
                  IF flagsApp.Name # <<>>
                  THEN IF Named(manifestApps, flagsApp.Name) # <<>>
                       THEN AddEach(<<>>, "nil", Named(manifestApps, flagsApp.Name))
                       ELSE [apps |-> <<>>, err |-> "Could not find app"]
                  ELSE AddEach(<<>>, "nil", manifestApps)
  IN  IF r.err # "nil" THEN [apps |-> <<>>, err |-> r.err] ELSE r

\* os.Exit(1) of exitWithError and exitWithOutputAndError
ExitFatal == 1

\* os.Exit(-1) of Execute, as the shell sees it
ExitExecute == 255

\* the status of a process whose main function returns
ExitReturn == 0

\* Execute: the status when the command function is over; cobraErr is the
\* error RootCmd.Execute returns, which a Run function cannot set
Execute(cobraErr) == IF cobraErr # "nil" THEN ExitExecute ELSE ExitReturn

\* the loop of PushConfig.Run over the merged applications: fatalAt = 0 when
\* every Push comes back, otherwise the position of the Push that ends the
\* process
PushLoop(apps, fatalAt) ==
  [pushed |-> [i \in 1..(IF fatalAt = 0 THEN Len(apps) ELSE fatalAt) |-> apps[i].Name],
   fatal |-> fatalAt # 0]

\* a command that cobra refuses (an unknown flag): its function is not run
Refused(op) ==
  [op |-> op, cobra |-> "unknown flag", err |-> "nil", fatal |-> FALSE,
   status |-> Execute("unknown flag")]

\* push: PushConfig.Run inside the Run function of newPushCmd
PushCommand ==
  /\ fn.op = "none"
  /\ UNCHANGED <<dcExists, dcEnv, last, exOut, exFailed, exRes, ocCall, race, plat, push>>
  /\ \/ fn' = Refused("push")
     \/ \E manifestErr \in {"nil", "yaml: unmarshal error"} :
          \E manifest \in IF manifestErr = "nil" THEN Manifests ELSE {<<>>} :
          \E name \in PushNames, memoryFlag \in MemoryFlags :
            LET flags  == getFlagsApp(IF name = <<>> THEN <<>> ELSE <<name>>, memoryFlag)
                merged == mergeAppsFromManifestAndFlags(manifest, flags.app)
                err    == IF manifestErr # "nil" THEN manifestErr
                          ELSE IF flags.err # "nil" THEN flags.err
                          ELSE merged.err
                apps   == IF err = "nil" THEN merged.apps ELSE <<>>
            IN  \E fatalAt \in 0..Len(apps) :
                  LET loop == PushLoop(apps, fatalAt)
                  IN  fn' = [op |-> "push", cobra |-> "nil", manifestErr |-> manifestErr,
                             manifest |-> manifest, name |-> name, flagsErr |-> flags.err,
                             flagsApp |-> flags.app,
                             merged |-> merged.apps, mergeErr |-> merged.err,
                             err |-> err, pushed |-> loop.pushed, fatal |-> loop.fatal,
                             status |-> IF loop.fatal THEN ExitFatal ELSE Execute("nil")]

\* the errors BindService and UnbindService return
BindErrors ==
  {"nil", "Error getting", "application not found", "service not found", "env not found",
   "already bound", "not bound", "Error updating environment"}

\* bind-service and unbind-service: BindConfig.Run and UnbindConfig.Run
\* inside the Run functions of newBindCmd and newUnbindCmd
BindCommand(op) ==
  /\ fn.op = "none"
  /\ UNCHANGED <<dcExists, dcEnv, last, exOut, exFailed, exRes, ocCall, race, plat, push>>
  /\ \/ fn' = Refused(op)
     \/ \E args \in SeqsUpTo({AppName, <<"a">>}, 3) :
          \E result \in IF Len(args) # 2 THEN {"Error: Application name and service name are required"}
                        ELSE BindErrors :
            fn' = [op |-> op, cobra |-> "nil", args |-> args, err |-> result,
                   fatal |-> FALSE, status |-> Execute("nil")]

InitCmd == InitBindings

NextCmd ==
  \/ PushCommand
  \/ BindCommand("bind-service")
  \/ BindCommand("unbind-service")

SpecCmd == InitCmd /\ [][NextCmd]_vars

\* a command ran to its end
CommandRan == fn.op \in {"push", "bind-service", "unbind-service"}

\* C26: the exit status is 0 only when the command succeeded: a fatal Push
\* step and every error the push, bind-service or unbind-service command
\* returns end the process with a status other than 0.
C26_ZeroOnlyOnSuccess ==
  CommandRan =>
    (fn.status = 0 => (fn.err = "nil" /\ ~fn.fatal /\ fn.cobra = "nil"))

\* C27: for a manifest of two or more entries the merge returns, when a name
\* is supplied, exactly the entries with that name, or an error and no
\* application when there is none; without a name, every entry in manifest
\* order.
C27_MergeSelects ==
  (fn.op = "push" /\ fn.cobra = "nil" /\ fn.manifestErr = "nil" /\ fn.flagsErr = "nil"
     /\ Len(fn.manifest) >= 2) =>
    IF fn.name # <<>>
    THEN IF \E i \in DOMAIN fn.manifest : fn.manifest[i].Name = fn.name
         THEN fn.mergeErr = "nil" /\ fn.merged = Named(fn.manifest, fn.name)
         ELSE fn.mergeErr # "nil" /\ fn.merged = <<>>
    ELSE fn.mergeErr = "nil" /\ fn.merged = fn.manifest



(***************************************************************************)
(* Push and a service whose environment cannot be read.                    *)
(***************************************************************************)
\* the listings of service environments the deployment step issued
ServiceReads ==
  LET Test(e) == e.step = "ensureDeploymentExists" /\ Verb(e) = <<"e","n","v">>
  IN  SelectSeq(push.log, Test)

\* C30: when the environment of a service of Services cannot be read, the
\* services before it were read and none after it, the error is "bound
\* service not found", and Push ends there: no deployment-creation command,
\* no service and no route are created.
C30_UnreadableServiceEndsPush ==
  (push.pc # "idle" /\ \E i \in DOMAIN ServiceReads : ServiceReads[i].res = "failed") =>
    LET n == Len(ServiceReads)
    IN  /\ n <= Len(push.app.Services)
        /\ \A j \in 1..n : /\ ServiceReads[j].args[3] = push.app.Services[j]
                           /\ (ServiceReads[j].res = "failed") <=> (j = n)
        /\ push.log[Len(push.log)] = ServiceReads[n]
        /\ push.pc = "exited" /\ push.status = "fatal"
        /\ push.err = BoundServiceNotFound
        /\ \A i \in DOMAIN push.log : Verb(push.log[i]) \notin {<<"r","u","n">>, <<"e","x","p","o","s","e">>}
        /\ ~dcExists /\ ~plat.svc /\ ~plat.route

\* C30 witness: of the services a and b the first cannot be read; Push has
\* ended without reading b
C30_Witness ==
  /\ push.pc = "exited"
  /\ push.app.Services = <<<<"a">>, <<"b">>>>
  /\ Len(ServiceReads) = 1
  /\ ServiceReads[1].args[3] = <<"a">>
  /\ ServiceReads[1].res = "failed"
  /\ push.err = BoundServiceNotFound



(***************************************************************************)
(* Further claims on the service-binding environment.                      *)
(***************************************************************************)
\* the entries of env that set the key
EntriesOf(env, key) == {i \in DOMAIN env : HasPrefix(env[i], key \o <<Eq>>)}

\* the labels of the families the service's environment has keys of
FamiliesOf(service) ==
  {LabelOfKey(k) : k \in DOMAIN ServiceEnv(service)} \ {<<>>}

\* C31: for each service of Services the computed entries have exactly one
\* PREFIX_LABEL entry; its value is postgresql, mysql or mongodb when the
\* service's environment has a key starting with POSTGRESQL, MYSQL or
\* MONGODB respectively, and empty when no key starts with any of them.
C31_OneLabelPerService ==
  BindingsComputed =>
    \A i \in DOMAIN fn.services :
      LET service == fn.services[i]
          labels  == EntriesOf(fn.env, serviceEnvPrefix(service) \o SufLabel)
      IN  /\ Cardinality(labels) = 1
          /\ \A j \in labels :
               /\ \A family \in FamiliesOf(service) : EntryValue(fn.env[j]) = family
               /\ FamiliesOf(service) = {} => EntryValue(fn.env[j]) = <<>>

\* C40: for each service the computed entries have at most one entry for
\* each of PREFIX_USER, PREFIX_PASSWORD and PREFIX_DATABASE.
C40_AtMostOneCredentialEntry ==
  BindingsComputed =>
    \A i \in DOMAIN fn.services : \A suffix \in {SufUser, SufPassword, SufDatabase} :
      Cardinality(EntriesOf(fn.env, serviceEnvPrefix(fn.services[i]) \o suffix)) <= 1



(***************************************************************************)
(* One external command per call of a method of DefaultOc.                 *)
(***************************************************************************)
\* the verb of the command each method issues
VerbOfMethod ==
  [LoggedIn |-> <<"w","h","o","a","m","i">>, Project |-> <<"p","r","o","j","e","c","t">>, Exists |-> <<"g","e","t">>,
   NewBuild |-> <<"n","e","w","-","b","u","i","l","d">>, Env |-> <<"e","n","v">>, SetEnv |-> <<"e","n","v">>]

\* C37: every call of a platform-client operation (login check, project
\* query, existence check, build creation, environment read, environment
\* write) issues exactly one external command, whether the command succeeds
\* or fails.
C37_OneCommandPerCall ==
  ocCall.op # "none" =>
    /\ Len(ocCall.cmds) = 1
    /\ ocCall.cmds[1][1] = VerbOfMethod[ocCall.op]

\* C37 witness: an environment read whose command failed
C37_Witness ==
  /\ ocCall.op = "Env"
  /\ ocCall.outcome = "exit status 1"
  /\ ~ocCall.res.hasMap
  /\ ocCall.cmds = <<<<<<"e","n","v">>, <<"d","c">>, <<"f","o","o">>, <<"-","-","l","i","s","t">>>>>>



(***************************************************************************)
(* The push command and applications without a name.                       *)
(***************************************************************************)
\* the applications the merge selects from manifest and flags
Selected ==
  IF Len(fn.manifest) = 0 THEN <<fn.flagsApp>>
  ELSE IF Len(fn.manifest) = 1 THEN <<MergeWithOverwrite(fn.manifest[1], fn.flagsApp)>>
  ELSE IF fn.name # <<>> THEN Named(fn.manifest, fn.name)
  ELSE fn.manifest

\* C36: the push command never runs Push for an application with an empty
\* name: the merge returns an error and no application whenever an entry it
\* selects has an empty Name, also when entries with a name follow it.
C36_NoNamelessPush ==
  (fn.op = "push" /\ fn.cobra = "nil" /\ fn.manifestErr = "nil" /\ fn.flagsErr = "nil") =>
    /\ \A i \in DOMAIN fn.pushed : fn.pushed[i] # <<>>
    /\ (\E i \in DOMAIN Selected : Selected[i].Name = <<>>) =>
         (fn.mergeErr # "nil" /\ fn.merged = <<>> /\ fn.pushed = <<>>)



(***************************************************************************)
(* The steps of Push, one by one.                                          *)
(***************************************************************************)
\* the commands a step of the running Push has issued
StepLog(step) ==
  LET Test(e) == e.step = step IN SelectSeq(push.log, Test)

\* the command ended the process: it is the last of the run
EndedProcess(entry) ==
  /\ push.log[Len(push.log)] = entry
  /\ push.pc = "exited"
  /\ push.status = "fatal"

\* C32: the deployment-creation command is issued only when the deployment
\* config was reported absent and after the image-stream query succeeded;
\* when the deployment config exists the only command issued is the
\* redeploy; a failed image-stream query, creation or redeploy is fatal.
C32_CreateOnlyWhenAbsent ==
  LET d == StepLog("ensureDeploymentExists")
  IN  d # <<>> =>
        /\ d[1].args = <<<<"g","e","t">>, <<"d","c">>, push.app.Name>>
        /\ \A i \in DOMAIN d :
             Verb(d[i]) = <<"r","u","n">> =>
               /\ d[1].res = "not found"
               /\ i = Len(d)
               /\ \E j \in 1..(i - 1) :
                    /\ Verb(d[j]) = <<"g","e","t">> /\ d[j].args[2] = <<"i","s">>
                    /\ d[j].res = "ok"
        /\ d[1].res = "ok" =>
             (Len(d) = 2 /\ d[2].args = <<<<"d","e","p","l","o","y">>, push.app.Name, <<"-","-","l","a","t","e","s","t">>>>)
        /\ d[1].res # "ok" => \A i \in DOMAIN d : Verb(d[i]) # <<"d","e","p","l","o","y">>
        /\ \A i \in DOMAIN d :
             (i > 1 /\ d[i].res = "failed" /\ Verb(d[i]) \in {<<"g","e","t">>, <<"r","u","n">>, <<"d","e","p","l","o","y">>})
               => (i = Len(d) /\ EndedProcess(d[i]))

\* C32 witness: the deployment config was absent, the image-stream query
\* succeeded and the creation command was issued
C32_Witness ==
  LET d == StepLog("ensureDeploymentExists")
  IN  /\ Len(d) = 3
      /\ d[1].res = "not found"
      /\ d[2].args[2] = <<"i","s">> /\ d[2].res = "ok"
      /\ Verb(d[3]) = <<"r","u","n">> /\ d[3].res = "ok"
      /\ dcExists

\* C32 witness: the redeploy of an existing deployment config failed
C32_WitnessRedeployFailed ==
  LET d == StepLog("ensureDeploymentExists")
  IN  /\ Len(d) = 2
      /\ d[1].res = "ok"
      /\ Verb(d[2]) = <<"d","e","p","l","o","y">> /\ d[2].res = "failed"
      /\ push.status = "fatal"

\* C33: ensureServiceExists and ensureRouteExists issue their expose command
\* only when the existence query reported the object absent; when it exists
\* they issue no further command; a query that fails without reporting
\* absence and a failed expose end the process.
C33_ExposeOnlyWhenAbsent ==
  \A step \in {"ensureServiceExists", "ensureRouteExists"} :
    LET e == StepLog(step)
    IN  e # <<>> =>
          /\ Verb(e[1]) = <<"g","e","t">>
          /\ Len(e) <= 2
          /\ (Len(e) = 2) <=> (e[1].res = "not found")
          /\ Len(e) = 2 => e[2].args[1] = <<"e","x","p","o","s","e">>
          /\ \A i \in DOMAIN e : e[i].res = "failed" => (i = Len(e) /\ EndedProcess(e[i]))
          /\ (e[1].res = "ok" /\ push.log[Len(push.log)] = e[1]) => push.status # "fatal"

\* C33 witness: the service existed and nothing was issued after the query,
\* the route was absent and its expose command failed
C33_Witness ==
  /\ Len(StepLog("ensureServiceExists")) = 1
  /\ StepLog("ensureServiceExists")[1].res = "ok"
  /\ Len(StepLog("ensureRouteExists")) = 2
  /\ StepLog("ensureRouteExists")[1].res = "not found"
  /\ StepLog("ensureRouteExists")[2].res = "failed"
  /\ push.status = "fatal"

\* a command that writes the environment of the deployment config or creates it
WritesDeployment(entry) ==
  \/ Verb(entry) = <<"r","u","n">>
  \/ Verb(entry) = <<"e","n","v">> /\ entry.args[2] = <<"d","c">> /\ entry.args[3] = push.app.Name

\* C34: a Push that finds the deployment config existing issues no
\* environment write and no creation command for it: the environment of the
\* deployment config is after the Push what it was before, whatever
\* Services, Memory and Command the application has.
C34_ExistingDeploymentUntouched ==
  [][ /\ dcExists =>
           /\ dcExists' /\ dcEnv' = dcEnv
           /\ \A i \in DOMAIN push'.log :
                i > Len(push.log) => ~WritesDeployment(push'.log[i])
      /\ (StepLog("ensureDeploymentExists") # <<>>
            /\ StepLog("ensureDeploymentExists")[1].res = "ok") =>
           \A i \in DOMAIN push.log : ~WritesDeployment(push.log[i]) ]_vars

\* C34 witness: an application with a service and a memory limit was pushed
\* to its end on an existing deployment config, whose environment has
\* neither CF_BOUND_SERVICES nor MEMORY_LIMIT
C34_Witness ==
  /\ push.pc = "done"
  /\ push.app.Services # <<>> /\ push.app.Memory # <<>>
  /\ StepLog("ensureDeploymentExists")[1].res = "ok"
  /\ StepLog("ensureDeploymentExists")[2].res = "ok"
  /\ dcExists
  /\ DOMAIN dcEnv = {<<"F","O","O">>}

\* C35: ensureLoggedIn issues the login command if and only if the login
\* check failed; a failed login ends the process before the project query or
\* any other command; a successful check or login lets the pipeline go on.
C35_LoginIffCheckFailed ==
  LET l == StepLog("ensureLoggedIn")
  IN  push.log # <<>> =>
        /\ l # <<>> /\ push.log[1] = l[1]
        /\ l[1].args = <<<<"w","h","o","a","m","i">>>>
        /\ Len(l) <= 2
        /\ (Len(l) = 2) <=> (l[1].res = "failed")
        /\ Len(l) = 2 => l[2].args = <<<<"l","o","g","i","n">>>>
        /\ l[Len(l)].res = "failed" =>
             (push.log = l /\ push.pc = "exited" /\ push.status = "fatal")
        /\ l[Len(l)].res = "ok" =>
             \/ Len(push.log) > Len(l)
             \/ push.pc = "displayProject"
             \/ push.status = "killed"

\* C35 witness: the check failed, the login succeeded and the project query
\* was issued
C35_Witness ==
  /\ Len(push.log) = 3
  /\ push.log[1].args = <<<<"w","h","o","a","m","i">>>> /\ push.log[1].res = "failed"
  /\ push.log[2].args = <<<<"l","o","g","i","n">>>> /\ push.log[2].res = "ok"
  /\ Verb(push.log[3]) = <<"p","r","o","j","e","c","t">>

\* C35 witness: the login failed and ended the process
C35_WitnessLoginFailed ==
  /\ Len(push.log) = 2
  /\ push.log[2].args = <<<<"l","o","g","i","n">>>> /\ push.log[2].res = "failed"
  /\ push.status = "fatal"

\* C39: start-build gets --from-dir=<Path> when Path is a directory or cannot
\* be stat'd and --from-file=<Path> when it is an existing file; exactly one
\* of the two forms is in the command; a failed start-build ends the process
\* before any deployment step.
C39_StartBuildPath ==
  LET b == StepLog("startBuild")
  IN  b # <<>> =>
        /\ Len(b) = 1
        /\ Verb(b[1]) = <<"s","t","a","r","t","-","b","u","i","l","d">>
        /\ Cardinality({i \in DOMAIN b[1].args :
                          HasPrefix(b[1].args[i], <<"-","-","f","r","o","m","-","d","i","r","=">>)
                            \/ HasPrefix(b[1].args[i], <<"-","-","f","r","o","m","-","f","i","l","e","=">>)}) = 1
        /\ push.app.PathKind \in {"dir", "missing"} => <<"-","-","f","r","o","m","-","d","i","r","=",".">> \in Range(b[1].args)
        /\ push.app.PathKind = "file" => <<"-","-","f","r","o","m","-","f","i","l","e","=",".">> \in Range(b[1].args)
        /\ b[1].res = "failed" =>
             /\ EndedProcess(b[1])
             /\ StepLog("ensureDeploymentExists") = <<>>

\* C39 witness: Path cannot be stat'd and the start-build command failed
C39_Witness ==
  /\ push.app.PathKind = "missing"
  /\ StepLog("startBuild") # <<>>
  /\ StepLog("startBuild")[1].args[3] = <<"-","-","f","r","o","m","-","d","i","r","=",".">>
  /\ StepLog("startBuild")[1].res = "failed"
  /\ push.status = "fatal"



(***************************************************************************)
(* What a Push run prints: the progress lines and the outputs echoed,      *)
(* around the commands of the log.                                         *)
(***************************************************************************)
\* the progress line printed before a command, "" when there is none
ProgressLine(entry) ==
  CASE Verb(entry) = <<"n","e","w","-","b","u","i","l","d">> -> "==> Creating build with command"
    [] Verb(entry) = <<"s","t","a","r","t","-","b","u","i","l","d">> -> "==> Starting build with command"
    [] Verb(entry) = <<"r","u","n">> -> "==> Creating deployment config with command"
    [] Verb(entry) = <<"d","e","p","l","o","y">> -> "==> Deployment config already exists, redeploying"
    [] Verb(entry) = <<"e","x","p","o","s","e">> /\ entry.args[2] = <<"d","c">> -> "==> Creating service with command"
    [] Verb(entry) = <<"e","x","p","o","s","e">> /\ entry.args[2] = <<"s","v","c">> -> "==> Creating route with command"
    [] Verb(entry) = <<"e","n","v">> /\ entry.args[Len(entry.args)] # <<"-","-","l","i","s","t">> ->
         "==> Updating environment variables with command"
    [] OTHER -> ""

\* the command is run with CombinedOutput: its output is captured
OutputCaptured(entry) ==
  Verb(entry) \notin {<<"w","h","o","a","m","i">>, <<"l","o","g","i","n">>, <<"s","t","a","r","t","-","b","u","i","l","d">>}

\* the captured output is printed after the command: always after project,
\* new-build, run, expose and the route display; after a get, the
\* image-stream query, deploy and an environment write only on the path of
\* their error; never after an environment listing
OutputEchoed(entry) ==
  CASE Verb(entry) \in {<<"p","r","o","j","e","c","t">>, <<"n","e","w","-","b","u","i","l","d">>, <<"r","u","n">>, <<"e","x","p","o","s","e">>} -> TRUE
    [] Verb(entry) = <<"g","e","t">> /\ Len(entry.args) > 3 /\ entry.args[2] = <<"r","o","u","t","e">> -> TRUE
    [] Verb(entry) = <<"g","e","t">> -> entry.res = "failed"
    [] Verb(entry) = <<"d","e","p","l","o","y">> -> entry.res = "failed"
    [] Verb(entry) = <<"e","n","v">> /\ entry.args[Len(entry.args)] = <<"-","-","l","i","s","t">> -> FALSE
    [] Verb(entry) = <<"e","n","v">> -> entry.res = "failed"
    [] OTHER -> FALSE

\* what the run shows, in order: progress lines, commands, echoed outputs
RECURSIVE Transcript(_)
Transcript(log) ==
  IF log = <<>> THEN <<>>
  ELSE LET e == Head(log)
       IN  (IF ProgressLine(e) # "" THEN <<[kind |-> "progress", line |-> ProgressLine(e), cmd |-> e]>>
            ELSE <<>>)
           \o <<[kind |-> "command", line |-> "", cmd |-> e]>>
           \o (IF OutputCaptured(e) /\ OutputEchoed(e)
               THEN <<[kind |-> "echo", line |-> "", cmd |-> e]>> ELSE <<>>)
           \o Transcript(Tail(log))

\* build creation, start build, deployment creation, redeploy, service
\* creation, route creation, environment write
Mutating(entry) ==
  \/ Verb(entry) \in {<<"n","e","w","-","b","u","i","l","d">>, <<"s","t","a","r","t","-","b","u","i","l","d">>, <<"r","u","n">>, <<"d","e","p","l","o","y">>, <<"e","x","p","o","s","e">>}
  \/ Verb(entry) = <<"e","n","v">> /\ entry.args[Len(entry.args)] # <<"-","-","l","i","s","t">>

\* C38: in every Push run each mutating command is preceded by a progress
\* line for it, and the output of every command whose output is captured is
\* echoed after the command, on success as well as on failure.
C38_ProgressAndEcho ==
  LET t == Transcript(push.log)
  IN  \A i \in DOMAIN t :
        t[i].kind = "command" =>
          /\ Mutating(t[i].cmd) =>
               (i > 1 /\ t[i - 1].kind = "progress" /\ t[i - 1].cmd = t[i].cmd)
          /\ OutputCaptured(t[i].cmd) =>
               (i < Len(t) /\ t[i + 1].kind = "echo" /\ t[i + 1].cmd = t[i].cmd)

====
